---------------------------- MODULE Spec2Model ----------------------------
(***************************************************************************)
(* A model of the lexparse package (src/lexparse.go):                      *)
(*                                                                         *)
(*   - CustomLexer.NextToken, the trampoline that runs lexer states and    *)
(*     hands out the tokens they emit;                                     *)
(*   - Parser.Parse with its state stack and one-token cache;              *)
(*   - LexParse, which runs the two as goroutines joined by a buffered     *)
(*     channel and a shared, cancellable context.                          *)
(*                                                                         *)
(* Lexer states and parser states are user code: the model lets each run   *)
(* do any sequence of the calls the context types offer, within the        *)
(* bounds below.                                                           *)
(*                                                                         *)
(* Ten specifications:                                                     *)
(*   Spec        LexParse: producer goroutine, consumer goroutine, caller. *)
(*   SpecLexer   a single caller calling CustomLexer.NextToken repeatedly  *)
(*               with a context that may be cancelled at any moment.       *)
(*   SpecCursor  the same caller, with lexer states that read, discard     *)
(*               and emit the runes of a short input.                      *)
(*   SpecParser  LexParse once its lexer is done: parser states that read  *)
(*               tokens, push states and push nodes.                       *)
(*   SpecTree    LexParse once its lexer is done: a parser state that      *)
(*               builds the tree with every tree operation.                *)
(*   SpecNodes   the same, with a state that reads and peeks tokens and    *)
(*               makes nodes in between.                                   *)
(*   SpecShape   the same, with a state that builds the tree with every    *)
(*               tree operation but SetRoot.                               *)
(*   SpecStack   LexParse once its lexer is done: parser states that push  *)
(*               states, a nil state value among them.                     *)
(*   SpecFixed   LexParse with a lexer state and a parser state that do    *)
(*               the same thing whenever they run, and a caller that never *)
(*               cancels: only the interleaving varies.                    *)
(*   SpecRunes   one invocation of a lexer state, with every call it can   *)
(*               make on its context, over a short input.                  *)
(***************************************************************************)
EXTENDS Integers, Sequences, FiniteSets, TLC

VARIABLES
    \* ---- CustomLexer (lexparse.go:1248-1269)
    buf,          \* l.buf: tokens emitted and not yet returned
    state,        \* l.state: "nil" or a state
    err,          \* l.err: the first error the lexer met, "nil" if none
    nextId,       \* the next *Token allocation (a token's id is its address)
    r,            \* l.r: the rune reader over the input stream, see NewReader
    b,            \* l.b: the runes of the token in progress
    pos,          \* l.pos: the position of the reader
    cursor,       \* l.cursor: the position where the token in progress starts
    \* ---- the context handed to NextToken and Parse
    ctxErr,       \* ctx.Err(): "nil" until the context is done
    \* ---- the caller of NextToken (LexParse's producer goroutine, lines 71-81)
    ppc,          \* "lex": inside NextToken; "send": holding t; "done"
    t,            \* the token NextToken returned last
    lexErr,       \* LexParse's lexErr
    \* ---- tokenChan (lines 32-34)
    c,            \* tokens.c, a channel of capacity channelBufSize
    \* ---- Parser (lines 1821-1839) and the consumer goroutine (lines 85-90)
    cpc,          \* "pop", "run", "next", "peek", "done"
    stateStack,   \* p.stateStack, top at the end
    next,         \* p.next: the peeked token, NoToken if none
    token,        \* p.token: the token next() returned last
    root,         \* p.root (a node's id is its address)
    node,         \* p.node: the current node
    heap,         \* the nodes allocated so far, by address
    parseErr,     \* LexParse's parseErr
    \* ---- LexParse's caller
    mpc,          \* "wait" (in waitGrp.Wait()) or "done"
    retRoot,      \* the root LexParse returned
    retErr,       \* the error LexParse returned
    \* ---- history, read by the properties only
    h             \* a record, see HInit

vars == << buf, state, err, nextId, r, b, pos, cursor, ctxErr, ppc, t, lexErr,
           c, cpc, stateStack, next, token, root, node, heap, parseErr, mpc,
           retRoot, retErr, h >>

cursorVars == << r, b, pos, cursor >>
treeVars   == << node, heap >>
lexerVars  == << buf, state, err, nextId, cursorVars >>
parserVars == << cpc, stateStack, next, token, root, parseErr, treeVars >>
mainVars   == << mpc, retRoot, retErr >>

-----------------------------------------------------------------------------
(* Bounds of the model. *)

\* Lexer state invocations during which the state may do anything; one more
\* invocation is allowed, in which the state must end the lexer.
MaxLexRuns == 1
\* Tokens the lexer states emit in all.
MaxEmit == 2
\* next()/peek() calls the parser states make in all.
MaxTokenOps == 2
\* pushState calls the parser states make in all.
MaxPushes == 1
\* NextToken calls of SpecLexer's caller.
MaxCalls == 4
\* The capacity of the token channel in the model.
ChanCap == 2
\* The longest input stream of SpecCursor, in runes.
MaxInput == 2
\* The largest count given to AdvanceN, DiscardN and PeekN.
MaxCount == 2
\* Calls (cursor operations and Emit) the lexer states of SpecCursor make in
\* all.
MaxOps == 3
\* NextToken calls of SpecCursor's caller.
MaxCursorCalls == 2
\* Nodes the parser states of SpecParser allocate in all.
MaxNodes == 3
\* pushState calls the parser states of SpecParser make in all.
MaxParserPushes == 2

\* lexparse.go:28 sets 1024. The model runs LexParse with a smaller channel:
\* the code never reads the number, only whether the channel is full.
channelBufSize == ChanCap

-----------------------------------------------------------------------------
(* Values. *)

Nil == "nil"

\* Token types: TokenTypeEOF, a user type, and the zero value of &Token{}.
TokenTypeEOF == "EOF"
UserTypes == {"T"}
EmitTypes == UserTypes \cup {TokenTypeEOF}

\* Errors. io.EOF, context.Canceled and context.DeadlineExceeded are the
\* library's; LexFail is an error a lexer state returns, IOFail one the
\* underlying reader returns to a cursor operation, ParseFail one a parser
\* state returns.
ioEOF == "io.EOF"
Canceled == "context.Canceled"
DeadlineExceeded == "context.DeadlineExceeded"
LexFail == "LexFail"
IOFail == "IOFail"
ParseFail == "ParseFail"

\* A nil *Token.
NoToken == [Type |-> "none", id |-> 0]

\* Position, without its Filename: the position NewCustomLexer and NewParser
\* start from (lines 1284-1295, 1797-1801), and the zero value of the type.
StartPos == [Offset |-> 0, Line |-> 1, Column |-> 1]
ZeroPos == [Offset |-> 0, Line |-> 0, Column |-> 0]

\* The runes of the input: a newline and another rune.
NL == "\n"
Runes == { "a", NL }

\* The input stream behind l.r (lines 1298-1304): `data` are its runes, `n`
\* how many of them have been consumed, `tail` what the stream returns at the
\* end of them: io.EOF, or an I/O error for a stream that breaks there.
NewReader(data, tail) == [data |-> data, n |-> 0, tail |-> tail]

\* The zero value of the tree's value type V, and the values states give to
\* the nodes they make: a different one for each node.
NoValue == "zero"
Values == << "v1", "v2", "v3", "v4", "v5", "v6" >>

\* The root NewParser allocates (lines 1796-1802), and a heap holding it.
RootAddr == "root0"
NewHeap ==
    [ a \in {RootAddr} |->
        [Value |-> NoValue, Parent |-> Nil, Children |-> << >>, Start |-> StartPos] ]

\* errors.Is(e, io.EOF) and errors.Is(e, context.Canceled) on these values.
IsEOF(e) == e = ioEOF
IsCanceled(e) == e = Canceled

\* The sequences below are finite: SeqUpTo(S, n) is every sequence over S of
\* length at most n.
SeqUpTo(S, n) == UNION { [1..k -> S] : k \in 0..n }

Reverse(s) == [i \in 1..Len(s) |-> s[Len(s) + 1 - i]]

Range(s) == { s[i] : i \in 1..Len(s) }

IsPrefix(s, u) == Len(s) <= Len(u) /\ SubSeq(u, 1, Len(s)) = s


-----------------------------------------------------------------------------
(* History.  The program's steps read h for the bounds of the model only. *)

HInit ==
    [ emitted      |-> << >>,   \* every token emit appended to l.buf, in order
      got          |-> << >>,   \* every token Parser.nextToken returned, in order
      runs         |-> 0,       \* lexer state invocations
      calls        |-> 1,       \* NextToken calls begun by CallAgain's caller
      tokenOps     |-> 0,       \* next()/peek() calls of parser states
      pushes       |-> 0,       \* pushState calls of parser states
      ops          |-> 0,       \* calls lexer states made on their context
      call         |-> [op |-> "none"],
                                \* the last such call of the running state:
                                \* its name, argument and result, and the
                                \* text in progress before it
      endSeen      |-> FALSE,   \* a cursor operation met the end of the stream
      sawEOF       |-> FALSE,   \* a lexer state has returned io.EOF
      ranAfterEOF  |-> FALSE,   \* a lexer state was invoked after that
      firstErr     |-> Nil,     \* the first error, not io.EOF, given to setErr
      ranAfterErr  |-> FALSE,   \* a lexer state was invoked with l.err set
      ranCancelled |-> FALSE,   \* a lexer state was invoked with ctx done
      cancelSeen   |-> Nil,     \* ctx.Err() when NextToken took <-ctx.Done()
      extFired     |-> FALSE,   \* the caller's context was cancelled
      extClean     |-> FALSE,   \* ... with l.err nil and a parser state running
      eofTaken     |-> FALSE,   \* the parser received an EOF-typed token
      recv         |-> << >>,   \* every token the parser took from its source
      lastTokenOp  |-> "none",  \* "next" or "peek": the call that returned last
      exit         |-> "none",  \* how Parse returned: "empty" (the pop gave
                                \* nil), "cancel", "eof" or "err" (a state
                                \* returned io.EOF, another error)
      stateErr     |-> Nil,     \* the error the last parser state returned
      stateRanDone |-> FALSE,   \* a parser state was invoked with ctx done
      agenda       |-> << >>,   \* the states due to run, the next one first
      nested       |-> FALSE,   \* PushState was called with states still due
      cur          |-> Nil,     \* the parser state run last
      outOfTurn    |-> FALSE,   \* a state ran that was not first on the agenda
      tree         |-> [op |-> "none"],
                                \* the last tree operation: its name, argument
                                \* and result, and whether a token was cached
      pre          |-> [eof |-> FALSE, empty |-> TRUE, err |-> Nil, done |-> FALSE],
                                \* at the start of the current NextToken call:
                                \* sawEOF, l.buf empty, l.err, ctx done
      lim          |-> [calls |-> MaxCalls, pushes |-> MaxPushes,
                       states |-> {"s"}],
                                \* the bounds on calls and pushes of the
                                \* specification that runs; never changed
      keepCall     |-> FALSE,   \* whether the specification that runs keeps
                                \* the field call; never changed
      keepEOF      |-> TRUE,    \* whether the specification that runs keeps
                                \* the field sawEOF as its states run; never
                                \* changed
      plan         |-> [good |-> 0, e |-> Nil, takes |-> 0, ret |-> Nil]
                                \* what the states of SpecFixed do; never
                                \* changed
    ]

\* The snapshot taken when a NextToken call begins.
Snapshot(hh) ==
    [hh EXCEPT !.pre = [eof |-> hh.sawEOF, empty |-> buf = << >>, err |-> err,
                        done |-> ctxErr # Nil]]

-----------------------------------------------------------------------------
(* CustomLexer *)

\* newToken with the start of the input for the token's Start.
newTokenFromStart(typ, id) ==
    [Type |-> typ, id |-> id, Value |-> b, Start |-> StartPos, End |-> pos]

\* CustomLexer.newToken (lines 1556-1563): a token of type typ allocated at
\* address id, from the cursor to the reader position.
newToken(typ, id) ==
    [Type |-> typ, id |-> id, Value |-> b, Start |-> cursor, End |-> pos]

\* setErr without its l.err == nil test: the last error wins.
setErrLast(cur, e) == IF IsEOF(e) THEN cur ELSE e

\* setErr without its test for io.EOF: end-of-input is recorded like an error.
setErrWithEOF(cur, e) == IF cur = Nil THEN e ELSE cur

\* CustomLexer.setErr (lines 1581-1585): cur is l.err, the result the new l.err.
setErr(cur, e) == IF cur = Nil /\ ~IsEOF(e) THEN e ELSE cur

\* emit without its test of l.err.
emitAnyway(q, cur, typ, id) == Append(q, newToken(typ, id))

\* CustomLexer.emit (lines 1505-1516): q is l.buf, cur is l.err; the result is
\* the new l.buf.  A lexer with an error recorded emits nothing.
emit(q, cur, typ, id) == IF cur # Nil THEN q ELSE Append(q, newToken(typ, id))

\* A sequence of emit calls by one state invocation.
RECURSIVE EmitSeq(_, _, _, _)
EmitSeq(q, cur, types, id) ==
    IF types = << >> THEN q
    ELSE EmitSeq(emit(q, cur, Head(types), id), cur, Tail(types),
                 IF cur # Nil THEN id ELSE id + 1)

\* NextToken's first test (lines 1313-1315).
lexerFailed == err # Nil

\* NextToken's loop condition (line 1323).
loopCond == Len(buf) = 0 /\ state # Nil

\* NextToken without its select on ctx.Done().
lexCtxDoneNever == FALSE

\* NextToken's select on ctx.Done() (lines 1326-1331).
lexCtxDone == ctxErr # Nil

\* What one invocation of a lexer state may do (LexState.Run, lines 1109-1113,
\* through CustomLexerContext): emit the tokens `pre`; then, if `io`, have a
\* cursor operation meet an I/O error (nextRune, advance and peekN record it
\* with setErr, lines 1365, 1415, 1442, 1571) and try to emit `post`; then
\* return (nxt, e).
RunOutcomes ==
    { o \in [ pre  : SeqUpTo(EmitTypes, MaxEmit - Len(h.emitted)),
              io   : BOOLEAN,
              post : SeqUpTo(UserTypes, 1),
              nxt  : {Nil, "s"},
              e    : {Nil, ioEOF, LexFail} ] :
        /\ h.runs >= MaxLexRuns => o.pre = << >> /\ ~o.io /\ o.nxt = Nil
        /\ ~o.io => o.post = << >> }

\* NextToken returns tok to its caller.
Return(tok) ==
    /\ t' = tok
    /\ ppc' = "send"

\* Lines 1313-1315: the lexer has failed before.
NextTokenErr ==
    /\ ppc = "lex"
    /\ lexerFailed
    /\ Return(newToken(TokenTypeEOF, nextId))
    /\ nextId' = nextId + 1
    /\ UNCHANGED << buf, state, err, ctxErr, lexErr, c, parserVars, mainVars, h >>
    /\ UNCHANGED cursorVars

\* Lines 1323-1331: no token is buffered, a state is left and ctx is done.
NextTokenCanceled ==
    /\ ppc = "lex"
    /\ ~lexerFailed
    /\ loopCond
    /\ lexCtxDone
    /\ err' = setErr(err, ctxErr)
    /\ Return(newToken(TokenTypeEOF, nextId))
    /\ nextId' = nextId + 1
    /\ h' = [h EXCEPT !.cancelSeen = ctxErr,
                      !.firstErr = IF @ = Nil THEN ctxErr ELSE @]
    /\ UNCHANGED << buf, state, ctxErr, lexErr, c, parserVars, mainVars >>
    /\ UNCHANGED cursorVars

\* Lines 1335-1341: the state runs with the outcome o; NextToken returns EOF
\* if an error is recorded after it and goes round the loop otherwise.
LexRun(o) ==
    LET buf1 == EmitSeq(buf, err, o.pre, nextId)
        id1  == nextId + (Len(buf1) - Len(buf))
        err1 == IF o.io THEN setErr(err, IOFail) ELSE err
        buf2 == EmitSeq(buf1, err1, o.post, id1)
        id2  == id1 + (Len(buf2) - Len(buf1))
        err2 == setErr(err1, o.e)
        errs == (IF o.io THEN << IOFail >> ELSE << >>)
                \o (IF o.e # Nil /\ ~IsEOF(o.e) THEN << o.e >> ELSE << >>)
    IN  /\ buf' = buf2
        /\ state' = o.nxt
        /\ err' = err2
        /\ IF err2 # Nil
             THEN /\ Return(newToken(TokenTypeEOF, id2))
                  /\ nextId' = id2 + 1
             ELSE /\ nextId' = id2
                  /\ UNCHANGED << t, ppc >>
        /\ h' = [h EXCEPT
                  !.emitted = @ \o SubSeq(buf2, Len(buf) + 1, Len(buf2)),
                  !.runs = @ + 1,
                  !.sawEOF = @ \/ (h.keepEOF /\ IsEOF(o.e)),
                  !.ranAfterEOF = @ \/ h.sawEOF,
                  !.ranAfterErr = @ \/ err # Nil,
                  !.ranCancelled = @ \/ ctxErr # Nil,
                  !.firstErr = IF @ = Nil /\ errs # << >> THEN errs[1] ELSE @]

\* Lines 1323-1341: no token is buffered, a state is left and ctx is not done:
\* the state runs, with any outcome.
NextTokenRun ==
    /\ ppc = "lex"
    /\ ~lexerFailed
    /\ loopCond
    /\ ~lexCtxDone
    /\ \E o \in RunOutcomes : LexRun(o)
    /\ UNCHANGED << ctxErr, lexErr, c, parserVars, mainVars >>
    /\ UNCHANGED cursorVars

\* Lines 1343-1351: a token is buffered; an EOF-typed one stays in the buffer.
NextTokenBuffered ==
    /\ ppc = "lex"
    /\ ~lexerFailed
    /\ ~loopCond
    /\ Len(buf) > 0
    /\ Return(buf[1])
    /\ buf' = IF buf[1].Type # TokenTypeEOF THEN Tail(buf) ELSE buf
    /\ UNCHANGED << state, err, nextId, ctxErr, lexErr, c, parserVars, mainVars, h >>
    /\ UNCHANGED cursorVars

\* Lines 1353-1355: the state is nil and nothing is buffered.
NextTokenEnd ==
    /\ ppc = "lex"
    /\ ~lexerFailed
    /\ ~loopCond
    /\ Len(buf) = 0
    /\ Return(newToken(TokenTypeEOF, nextId))
    /\ nextId' = nextId + 1
    /\ UNCHANGED << buf, state, err, ctxErr, lexErr, c, parserVars, mainVars, h >>
    /\ UNCHANGED cursorVars

\* The context given by the caller is cancelled, or its deadline passes,
\* while the call runs.  Once LexParse's own cancel() has run (line 88) the
\* derived context keeps the error it has.
CallerCancel ==
    /\ mpc = "wait"
    /\ ctxErr = Nil
    /\ \E e \in {Canceled, DeadlineExceeded} : ctxErr' = e
    /\ h' = [h EXCEPT !.extFired = TRUE,
                      !.extClean = (err = Nil /\ cpc \in {"run", "next", "peek"})]
    /\ UNCHANGED << lexerVars, ppc, t, lexErr, c, parserVars, mainVars >>

-----------------------------------------------------------------------------
(* SpecLexer: one caller of CustomLexer.NextToken. *)

\* The caller takes the token and calls NextToken again.
CallAgain ==
    /\ ppc = "send"
    /\ h.calls < h.lim.calls
    /\ ppc' = "lex"
    /\ h' = [Snapshot(h) EXCEPT !.calls = @ + 1]
    /\ UNCHANGED << lexerVars, ctxErr, t, lexErr, c, parserVars, mainVars >>

\* NewCustomLexer (lines 1274-1307) with any starting state, and a caller
\* about to make its first NextToken call.
InitLexer ==
    /\ buf = << >>
    /\ state \in {Nil, "s"}
    /\ err = Nil
    /\ nextId = 1
    /\ r = NewReader(<< >>, ioEOF)
    /\ b = << >>
    /\ pos = StartPos
    /\ cursor = StartPos
    /\ ctxErr = Nil
    /\ ppc = "lex"
    /\ t = [Type |-> "zero", id |-> 0]
    /\ lexErr = Nil
    /\ c = << >>
    /\ cpc = "done"
    /\ stateStack = << >>
    /\ next = NoToken
    /\ token = NoToken
    /\ root = RootAddr
    /\ node = RootAddr
    /\ heap = NewHeap
    /\ parseErr = Nil
    /\ mpc = "wait"
    /\ retRoot = Nil
    /\ retErr = Nil
    /\ h = HInit

NextLexer ==
    \/ NextTokenErr
    \/ NextTokenCanceled
    \/ NextTokenRun
    \/ NextTokenBuffered
    \/ NextTokenEnd
    \/ CallAgain
    \/ CallerCancel

SpecLexer == InitLexer /\ [][NextLexer]_vars

-----------------------------------------------------------------------------
(* The cursor operations of CustomLexer *)

Min(x, y) == IF x <= y THEN x ELSE y

\* The EOF rune (line 1105).
EOFRune == "EOF"

\* The runes of the stream rd not yet consumed.
Remaining(rd) == SubSeq(rd.data, rd.n + 1, Len(rd.data))

\* l.r.ReadRune() (line 1363): the next rune, consumed, or the stream's end.
ReadRune(rd) ==
    IF rd.n < Len(rd.data)
      THEN [rn |-> rd.data[rd.n + 1], err |-> Nil, r |-> [rd EXCEPT !.n = @ + 1]]
      ELSE [rn |-> EOFRune, err |-> rd.tail, r |-> rd]

\* l.r.Peek(k) (lines 1413, 1570): the next k runes, or the runes left and
\* the reason why they are fewer.
Peek(rd, k) ==
    LET m == Min(k, Len(Remaining(rd)))
    IN  [runes |-> SubSeq(Remaining(rd), 1, m),
         err   |-> IF m < k THEN rd.tail ELSE Nil]

\* l.r.Discard(k) (line 1420), given k runes Peek has just returned.
Discard(rd, k) == [rd EXCEPT !.n = @ + k]

\* l.r.Buffered() (lines 1403, 1470): any part of what is left may sit in the
\* reader's buffer.
Buffered(rd) == 0..Len(Remaining(rd))

\* movePos with the column counted on across a newline.
movePosNoReset(p, rn) ==
    IF rn = NL
      THEN [Offset |-> p.Offset + 1, Line |-> p.Line + 1, Column |-> p.Column + 1]
      ELSE [Offset |-> p.Offset + 1, Line |-> p.Line, Column |-> p.Column + 1]

\* The position after rune rn (lines 1369-1375, 1428-1435).
movePos(p, rn) ==
    IF rn = NL
      THEN [Offset |-> p.Offset + 1, Line |-> p.Line + 1, Column |-> 1]
      ELSE [Offset |-> p.Offset + 1, Line |-> p.Line, Column |-> p.Column + 1]

RECURSIVE movePosN(_, _)
movePosN(p, rns) ==
    IF rns = << >> THEN p ELSE movePosN(movePos(p, Head(rns)), Tail(rns))

\* The lexer's fields that the reading operations change.
Reading == [r |-> r, b |-> b, pos |-> pos, err |-> err]

\* nextRune without its test of l.err.
nextRuneUnchecked(l) ==
    LET rr == ReadRune(l.r)
    IN  IF rr.err # Nil
          THEN [rn |-> EOFRune, l |-> [l EXCEPT !.err = setErr(l.err, rr.err)]]
          ELSE [rn |-> rr.rn,
                l  |-> [r |-> rr.r, b |-> Append(l.b, rr.rn),
                        pos |-> movePos(l.pos, rr.rn), err |-> l.err]]

\* CustomLexer.nextRune (lines 1358-1380) on a lexer with the fields l: the
\* rune returned and the fields after the call.
nextRuneAt(l) ==
    IF l.err # Nil THEN [rn |-> EOFRune, l |-> l]
    ELSE LET rr == ReadRune(l.r)
         IN  IF rr.err # Nil
               THEN [rn |-> EOFRune,
                     l  |-> [l EXCEPT !.err = setErr(l.err, rr.err)]]
               ELSE [rn |-> rr.rn,
                     l  |-> [r |-> rr.r, b |-> Append(l.b, rr.rn),
                             pos |-> movePos(l.pos, rr.rn), err |-> l.err]]

\* nextRune on the lexer as it is.
nextRune == nextRuneAt(Reading)

\* The smallest buffer advance reckons with (line 1399).
minSize == 16

\* The loop of CustomLexer.advance (lines 1401-1452): st.l are the fields,
\* st.advanced the count so far; the result is the set of states the loop
\* may end in, one for each way the reader's buffer may fill.
RECURSIVE advanceLoop(_, _, _)
advanceLoop(st, numRunes, discard) ==
    IF numRunes <= 0 THEN {st}
    ELSE UNION {
      LET toRead == IF Min(bufd, numRunes) = 0 THEN Min(numRunes, minSize)
                    ELSE Min(bufd, numRunes)
          pk     == Peek(st.l.r, toRead)
          nd     == Len(pk.runes)
          st1    == [advanced |-> st.advanced + nd,
                     l |-> [r   |-> Discard(st.l.r, nd),
                            b   |-> IF discard THEN st.l.b ELSE st.l.b \o pk.runes,
                            pos |-> movePosN(st.l.pos, pk.runes),
                            err |-> st.l.err]]
      IN  IF pk.err # Nil /\ ~IsEOF(pk.err)
            THEN {[st EXCEPT !.l.err = setErr(st.l.err, pk.err)]}
            ELSE IF pk.err # Nil THEN {st1}
            ELSE advanceLoop(st1, numRunes - nd, discard)
      : bufd \in Buffered(st.l.r) }

\* ignore with the cursor put back to the start of the input.
ignoreToStart(l) == [cursor |-> StartPos, b |-> << >>]

\* ignore without its reset of l.b.
ignoreKeepingText(l) == [cursor |-> l.pos, b |-> l.b]

\* CustomLexer.ignore (lines 1549-1552) after the reading fields became l:
\* the cursor and the text in progress.
ignore(l) == [cursor |-> l.pos, b |-> << >>]

\* advance with ignore() called whether or not discard is set.
advanceIgnoring(l, cur, numRunes, discard) ==
    IF l.err # Nil THEN {[advanced |-> 0, l |-> l, cursor |-> cur]}
    ELSE { [advanced |-> st.advanced,
            l        |-> [st.l EXCEPT !.b = ignore(st.l).b],
            cursor   |-> ignore(st.l).cursor]
           : st \in advanceLoop([advanced |-> 0, l |-> l], numRunes, discard) }

\* advance with ignore() called only after runes were discarded.
advanceIgnoringSome(l, cur, numRunes, discard) ==
    IF l.err # Nil THEN {[advanced |-> 0, l |-> l, cursor |-> cur]}
    ELSE { [advanced |-> st.advanced,
            l        |-> IF discard /\ st.advanced > 0
                           THEN [st.l EXCEPT !.b = ignore(st.l).b]
                           ELSE st.l,
            cursor   |-> IF discard /\ st.advanced > 0
                           THEN ignore(st.l).cursor ELSE cur]
           : st \in advanceLoop([advanced |-> 0, l |-> l], numRunes, discard) }

\* CustomLexer.advance (lines 1384-1455) on a lexer with the fields l and the
\* cursor cur: the outcomes of advance(numRunes, discard), each with the count
\* returned, the reading fields and the cursor.
advanceAt(l, cur, numRunes, discard) ==
    IF l.err # Nil THEN {[advanced |-> 0, l |-> l, cursor |-> cur]}
    ELSE { [advanced |-> st.advanced,
            l        |-> IF discard THEN [st.l EXCEPT !.b = ignore(st.l).b]
                         ELSE st.l,
            cursor   |-> IF discard THEN ignore(st.l).cursor ELSE cur]
           : st \in advanceLoop([advanced |-> 0, l |-> l], numRunes, discard) }

\* advance on the lexer as it is.
advance(numRunes, discard) == advanceAt(Reading, cursor, numRunes, discard)

\* peekN with the end of the stream recorded as an error.
peekNRecordingEOF(l, k) ==
    IF l.err # Nil THEN [runes |-> << >>, err |-> l.err]
    ELSE [runes |-> Peek(l.r, k).runes,
          err   |-> IF Peek(l.r, k).err # Nil THEN Peek(l.r, k).err ELSE l.err]

\* CustomLexer.peekN (lines 1565-1574) on a lexer with the fields l: the runes
\* returned and l.err after.
peekNAt(l, k) ==
    IF l.err # Nil THEN [runes |-> << >>, err |-> l.err]
    ELSE [runes |-> Peek(l.r, k).runes, err |-> setErr(l.err, Peek(l.r, k).err)]

\* peekN on the lexer as it is.
peekN(k) == peekNAt(Reading, k)

\* CustomLexerContext.Peek (lines 1210-1217): the rune returned and l.err
\* after.
peek ==
    [rn  |-> IF Len(peekN(1).runes) < 1 THEN EOFRune ELSE peekN(1).runes[1],
     err |-> peekN(1).err]

\* CustomLexerContext.Width (lines 1238-1240).
Width == pos.Offset - cursor.Offset

Max(x, y) == IF x >= y THEN x ELSE y

\* The length of the longest needle of query (lines 1458-1463, 1519-1524).
RECURSIVE maxLen(_)
maxLen(query) ==
    IF query = << >> THEN 0 ELSE Max(Len(Head(query)), maxLen(Tail(query)))

\* FirstMatch with the last needle that matches instead of the first.
LastMatch(query, rns) ==
    IF \E j \in 1..Len(query) : IsPrefix(query[j], rns)
      THEN CHOOSE j \in 1..Len(query) :
             /\ IsPrefix(query[j], rns)
             /\ \A k \in (j + 1)..Len(query) : ~IsPrefix(query[k], rns)
      ELSE 0

\* The index of the first needle of query that rns starts with, 0 if there is
\* none (lines 1475-1476, 1539-1540).
FirstMatch(query, rns) ==
    IF \E j \in 1..Len(query) : IsPrefix(query[j], rns)
      THEN CHOOSE j \in 1..Len(query) :
             /\ IsPrefix(query[j], rns)
             /\ \A k \in 1..(j - 1) : ~IsPrefix(query[k], rns)
      ELSE 0

\* The loop of CustomLexer.find (lines 1531-1546).
RECURSIVE findLoop(_, _)
findLoop(l, query) ==
    LET pk == peekNAt(l, maxLen(query))
        l1 == [l EXCEPT !.err = pk.err]
        j  == FirstMatch(query, pk.runes)
    IN  IF Len(pk.runes) = 0 THEN [ret |-> << >>, l |-> l1]
        ELSE IF j > 0 THEN [ret |-> query[j], l |-> l1]
        ELSE findLoop(nextRuneAt(l1).l, query)

\* CustomLexer.find (lines 1518-1547) on a lexer with the fields l: the needle
\* returned, << >> for "", and the fields after the call.
findAt(l, query) ==
    IF maxLen(query) = 0 THEN [ret |-> << >>, l |-> l] ELSE findLoop(l, query)

\* The first i for which a needle of query is a prefix of rns[i:i+m], counted
\* from 0, among the i the loop of line 1474 visits; -1 if there is none.
FirstMatchAt(query, rns, m) ==
    LET hits == { i \in 0..(Len(rns) - m) :
                    FirstMatch(query, SubSeq(rns, i + 1, i + m)) > 0 }
    IN  IF hits = {} THEN -1
        ELSE CHOOSE i \in hits : \A k \in hits : i <= k

\* The loop of CustomLexer.discardTo (lines 1469-1502): the outcomes, one for
\* each way the reader's buffer may fill.
RECURSIVE discardToLoop(_, _, _)
discardToLoop(l, cur, query) ==
    UNION {
      LET m   == maxLen(query)
          pk  == peekNAt(l, Max(bufd, m))
          l1  == [l EXCEPT !.err = pk.err]
          rns == pk.runes
          i   == FirstMatchAt(query, rns, m)
          toDiscard == IF Len(rns) - m + 1 <= 0 THEN 1 ELSE Len(rns) - m + 1
      IN  IF i >= 0
            THEN { [ret    |-> IF o.advanced < i THEN << >>
                               ELSE query[FirstMatch(query,
                                                     SubSeq(rns, i + 1, i + m))],
                    l      |-> o.l,
                    cursor |-> o.cursor] : o \in advanceAt(l1, cur, i, TRUE) }
            ELSE UNION {
                   IF o.advanced < toDiscard
                     THEN {[ret |-> << >>, l |-> o.l, cursor |-> o.cursor]}
                     ELSE discardToLoop(o.l, o.cursor, query)
                   : o \in advanceAt(l1, cur, toDiscard, TRUE) }
      : bufd \in Buffered(l.r) }

\* CustomLexer.discardTo (lines 1457-1503) on a lexer with the fields l and
\* the cursor cur: the outcomes, each with the needle returned, the fields and
\* the cursor.
discardToAt(l, cur, query) ==
    IF maxLen(query) = 0 THEN {[ret |-> << >>, l |-> l, cursor |-> cur]}
    ELSE discardToLoop(l, cur, query)

\* The history after setErr was given e.
NoteErr(hh, e) ==
    [hh EXCEPT !.firstErr = IF @ = Nil /\ e # Nil /\ ~IsEOF(e) THEN e ELSE @]

\* One more call by a lexer state.
OneOp(hh) == [hh EXCEPT !.ops = @ + 1]

\* The running state's call op, given arg, has returned ret.
Called(hh, op, arg, ret) ==
    IF hh.keepCall
      THEN [OneOp(hh) EXCEPT !.call = [op |-> op, arg |-> arg, ret |-> ret,
                                      text |-> b]]
      ELSE OneOp(hh)

\* The history after the stream answered a read with e.
NoteEnd(hh, e) == [hh EXCEPT !.endSeen = @ \/ IsEOF(e)]

-----------------------------------------------------------------------------
(* SpecCursor: CustomLexer.NextToken with the lexer states' calls followed   *)
(* one by one.  ppc = "state" while a lexer state runs.                      *)

\* Lines 1323-1335: no token is buffered, a state is left and ctx is not
\* done; l.state.Run is called.
LexRunBegin ==
    /\ ppc = "lex"
    /\ ~lexerFailed
    /\ loopCond
    /\ ~lexCtxDone
    /\ ppc' = "state"
    /\ h' = [h EXCEPT !.runs = @ + 1,
                      !.ranAfterEOF = @ \/ h.sawEOF,
                      !.ranAfterErr = @ \/ err # Nil,
                      !.ranCancelled = @ \/ ctxErr # Nil]
    /\ UNCHANGED << lexerVars, ctxErr, t, lexErr, c, parserVars, mainVars >>

\* The running state calls ctx.NextRune() (lines 1204-1206).
LexNextRune ==
    /\ ppc = "state"
    /\ h.ops < MaxOps
    /\ r' = nextRune.l.r
    /\ b' = nextRune.l.b
    /\ pos' = nextRune.l.pos
    /\ err' = nextRune.l.err
    /\ h' = Called(IF err = Nil
                      THEN NoteEnd(NoteErr(h, ReadRune(r).err), ReadRune(r).err)
                      ELSE h,
                    "next_rune", Nil, nextRune.rn)
    /\ UNCHANGED << buf, state, nextId, cursor, ctxErr, ppc, t, lexErr, c,
                    parserVars, mainVars >>

\* The fields after an outcome o of advance(n, discard); the call met the
\* end of the stream if it advanced less than n without an error.
Advanced(o, n, op) ==
    /\ r' = o.l.r
    /\ b' = o.l.b
    /\ pos' = o.l.pos
    /\ err' = o.l.err
    /\ cursor' = o.cursor
    /\ h' = Called(NoteEnd(NoteErr(h, o.l.err),
                           IF o.advanced < n /\ o.l.err = Nil THEN r.tail ELSE Nil),
                   op, n, o.advanced)

\* The running state calls ctx.Advance() or ctx.AdvanceN(n) (lines 1145-1153).
LexAdvanceN ==
    /\ ppc = "state"
    /\ h.ops < MaxOps
    /\ \E n \in 1..MaxCount :
         \E o \in advance(n, FALSE) : Advanced(o, n, "advance_n")
    /\ UNCHANGED << buf, state, nextId, ctxErr, ppc, t, lexErr, c, parserVars,
                    mainVars >>

\* The running state calls ctx.Discard() or ctx.DiscardN(n) (lines 1163-1171).
LexDiscardN ==
    /\ ppc = "state"
    /\ h.ops < MaxOps
    /\ \E n \in 1..MaxCount :
         \E o \in advance(n, TRUE) : Advanced(o, n, "discard_n")
    /\ UNCHANGED << buf, state, nextId, ctxErr, ppc, t, lexErr, c, parserVars,
                    mainVars >>

\* The running state calls ctx.Peek() or ctx.PeekN(n) (lines 1210-1224).
LexPeekN ==
    /\ ppc = "state"
    /\ h.ops < MaxOps
    /\ \E n \in 1..MaxCount :
         /\ err' = peekN(n).err
         /\ h' = Called(IF err = Nil
                           THEN NoteEnd(NoteErr(h, Peek(r, n).err), Peek(r, n).err)
                           ELSE h,
                         "peek_n", n, peekN(n).runes)
    /\ UNCHANGED << buf, state, nextId, cursorVars, ctxErr, ppc, t, lexErr, c,
                    parserVars, mainVars >>

\* The running state calls ctx.Ignore() (lines 1198-1200).
LexIgnore ==
    /\ ppc = "state"
    /\ h.ops < MaxOps
    /\ cursor' = ignore(Reading).cursor
    /\ b' = ignore(Reading).b
    /\ h' = Called(h, "ignore", Nil, Nil)
    /\ UNCHANGED << buf, state, err, nextId, r, pos, ctxErr, ppc, t, lexErr, c,
                    parserVars, mainVars >>

\* The running state calls ctx.Emit(typ) (lines 1184-1186, 1505-1516).
LexEmit ==
    /\ ppc = "state"
    /\ h.ops < MaxOps
    /\ Len(h.emitted) < MaxEmit
    /\ \E typ \in EmitTypes :
         /\ buf' = emit(buf, err, typ, nextId)
         /\ h' = [Called(h, "emit", typ,
                         IF err = Nil THEN newToken(typ, nextId) ELSE NoToken)
                    EXCEPT !.emitted = @ \o SubSeq(buf', Len(buf) + 1, Len(buf'))]
    /\ IF err = Nil
         THEN /\ nextId' = nextId + 1
              /\ cursor' = ignore(Reading).cursor
              /\ b' = ignore(Reading).b
         ELSE UNCHANGED << nextId, cursor, b >>
    /\ UNCHANGED << state, err, r, pos, ctxErr, ppc, t, lexErr, c, parserVars,
                    mainVars >>

\* The running state returns (nxt, e) (lines 1335-1341): NextToken returns an
\* EOF token if an error is recorded by now and goes round its loop
\* otherwise.  The last state invocation the bound allows ends the lexer.
LexRunEnd ==
    /\ ppc = "state"
    /\ \E nxt \in {Nil, "s"}, e \in {Nil, ioEOF, LexFail} :
         /\ h.runs >= MaxLexRuns => nxt = Nil
         /\ state' = nxt
         /\ err' = setErr(err, e)
         /\ h' = [NoteErr(h, e) EXCEPT !.sawEOF = @ \/ IsEOF(e),
                                       !.call = [op |-> "none"]]
    /\ IF err' # Nil
         THEN /\ Return(newToken(TokenTypeEOF, nextId))
              /\ nextId' = nextId + 1
         ELSE /\ ppc' = "lex"
              /\ UNCHANGED << t, nextId >>
    /\ UNCHANGED << buf, cursorVars, ctxErr, lexErr, c, parserVars, mainVars >>

\* NewCustomLexer (lines 1274-1307) over any input stream, with any starting
\* state, and a caller about to make its first NextToken call.
InitCursor ==
    /\ buf = << >>
    /\ state \in {Nil, "s"}
    /\ err = Nil
    /\ nextId = 1
    /\ \E data \in SeqUpTo(Runes, MaxInput), tail \in {ioEOF, IOFail} :
         r = NewReader(data, tail)
    /\ b = << >>
    /\ pos = StartPos
    /\ cursor = StartPos
    /\ ctxErr = Nil
    /\ ppc = "lex"
    /\ t = [Type |-> "zero", id |-> 0]
    /\ lexErr = Nil
    /\ c = << >>
    /\ cpc = "done"
    /\ stateStack = << >>
    /\ next = NoToken
    /\ token = NoToken
    /\ root = RootAddr
    /\ node = RootAddr
    /\ heap = NewHeap
    /\ parseErr = Nil
    /\ mpc = "wait"
    /\ retRoot = Nil
    /\ retErr = Nil
    /\ h = [HInit EXCEPT !.lim.calls = MaxCursorCalls]

LexStateCalls ==
    \/ LexNextRune
    \/ LexAdvanceN
    \/ LexDiscardN
    \/ LexPeekN
    \/ LexIgnore
    \/ LexEmit

NextCursor ==
    \/ NextTokenErr
    \/ NextTokenCanceled
    \/ LexRunBegin
    \/ LexStateCalls
    \/ LexRunEnd
    \/ NextTokenBuffered
    \/ NextTokenEnd
    \/ CallAgain
    \/ CallerCancel

SpecCursor == InitCursor /\ [][NextCursor]_vars

-----------------------------------------------------------------------------
(* SpecRunes: one invocation of a lexer state, by the first NextToken call   *)
(* on a new lexer, with every call the state can make on its context.        *)

\* The needles a state searches for, and the lists of needles it hands to
\* Find and DiscardTo.
Needles == { << "a" >>, << NL >>, << "a", NL >> }
Queries == { q \in SeqUpTo(Needles, 2) : Len(q) = 2 => q[1] # q[2] }

\* The running state calls ctx.Peek() (lines 1210-1217).
LexPeek ==
    /\ ppc = "state"
    /\ h.ops < MaxOps
    /\ err' = peek.err
    /\ h' = Called(IF err = Nil
                      THEN NoteEnd(NoteErr(h, Peek(r, 1).err), Peek(r, 1).err)
                      ELSE h,
                    "peek", Nil, peek.rn)
    /\ UNCHANGED << buf, state, nextId, cursorVars, ctxErr, ppc, t, lexErr, c,
                    parserVars, mainVars >>

\* The running state calls ctx.Find(query) (lines 1192-1194).
LexFind ==
    /\ ppc = "state"
    /\ h.ops < MaxOps
    /\ \E query \in Queries :
         \E o \in {findAt(Reading, query)} :
           /\ r' = o.l.r
           /\ b' = o.l.b
           /\ pos' = o.l.pos
           /\ err' = o.l.err
           /\ h' = Called(NoteErr(h, o.l.err), "find", query, o.ret)
    /\ UNCHANGED << buf, state, nextId, cursor, ctxErr, ppc, t, lexErr, c,
                    parserVars, mainVars >>

\* The running state calls ctx.DiscardTo(query) (lines 1177-1179).
LexDiscardTo ==
    /\ ppc = "state"
    /\ h.ops < MaxOps
    /\ \E query \in Queries :
         \E o \in discardToAt(Reading, cursor, query) :
           /\ r' = o.l.r
           /\ b' = o.l.b
           /\ pos' = o.l.pos
           /\ err' = o.l.err
           /\ cursor' = o.cursor
           /\ h' = Called(NoteErr(h, o.l.err), "discard_to", query, o.ret)
    /\ UNCHANGED << buf, state, nextId, ctxErr, ppc, t, lexErr, c, parserVars,
                    mainVars >>

\* NewCustomLexer (lines 1274-1307) over any input stream; NextToken has
\* called the starting state (lines 1323-1335).
InitRunes ==
    /\ buf = << >>
    /\ state = "s"
    /\ err = Nil
    /\ nextId = 1
    /\ \E data \in SeqUpTo(Runes, MaxInput), tail \in {ioEOF, IOFail} :
         r = NewReader(data, tail)
    /\ b = << >>
    /\ pos = StartPos
    /\ cursor = StartPos
    /\ ctxErr = Nil
    /\ ppc = "state"
    /\ t = [Type |-> "zero", id |-> 0]
    /\ lexErr = Nil
    /\ c = << >>
    /\ cpc = "done"
    /\ stateStack = << >>
    /\ next = NoToken
    /\ token = NoToken
    /\ root = RootAddr
    /\ node = RootAddr
    /\ heap = NewHeap
    /\ parseErr = Nil
    /\ mpc = "wait"
    /\ retRoot = Nil
    /\ retErr = Nil
    /\ h = [HInit EXCEPT !.runs = 1, !.keepCall = TRUE]

NextRunes ==
    \/ LexStateCalls
    \/ LexPeek
    \/ LexFind
    \/ LexDiscardTo

SpecRunes == InitRunes /\ [][NextRunes]_vars

-----------------------------------------------------------------------------
(* LexParse: the producer goroutine (lines 71-81) *)

\* A send that never waits for room.
canSendAlways == TRUE

\* A send on tokens.c goes through when the buffer has room (line 75; LexParse
\* never closes the channel and the send selects on nothing else).
canSend == Len(c) < channelBufSize

\* Lines 73-78: the token NextToken returned is sent; the loop ends after an
\* EOF-typed token, and lexErr is read from lex.Err().
ProducerSend ==
    /\ mpc = "wait"
    /\ ppc = "send"
    /\ canSend
    /\ c' = Append(c, t)
    /\ IF t.Type # TokenTypeEOF
         THEN /\ ppc' = "lex"
              /\ UNCHANGED lexErr
         ELSE /\ ppc' = "done"
              /\ lexErr' = err
    /\ UNCHANGED << lexerVars, ctxErr, t, parserVars, mainVars, h >>

-----------------------------------------------------------------------------
(* Parser, and the consumer goroutine (lines 85-90) *)

\* stack.pop (lines 1696-1705): the state popped, nil on an empty stack.
pop(s) == IF Len(s) = 0 THEN Nil ELSE s[Len(s)]

\* ... and the stack it leaves.
popped(s) == IF Len(s) = 0 THEN s ELSE SubSeq(s, 1, Len(s) - 1)

\* pushState with the states pushed first first.
pushStateForward(s, states) == s \o states

\* Parser.pushState (lines 1883-1887): the states are pushed last first.
pushState(s, states) == s \o Reverse(states)

\* nextToken without its p.next = nil: the token stays cached.
cacheAfterNextKept(l) == l

\* Parser.nextToken, line 1906: the cache after next() returned l.
cacheAfterNext(l) == NoToken

\* Parse without its select on ctx.Done().
parseCtxDoneNever == FALSE

\* Parse's select on ctx.Done() (lines 1858-1867).
parseCtxDone == ctxErr # Nil

\* The state lists a parser state hands to PushState: one state, or two of
\* the states the specification lets a parser use.
PushChoices == { << "s" >> } \cup { << "s", x >> : x \in h.lim.states }

\* The errors a parser state returns.
StateResults == { Nil, ioEOF, ParseFail }

\* Lines 1870-1880 with io.EOF returned like any other error.
parseResultAll(e) == e

\* Lines 1870-1880 with the state's error dropped.
parseResultNone(e) == Nil

\* Lines 1870-1880: the error Parse returns when a state has returned e, not
\* nil: nil for io.EOF, e otherwise.
parseResult(e) == IF IsEOF(e) THEN Nil ELSE e

\* Parse returns (p.root, e) at lines 1862, 1876 or 1880; the goroutine stores
\* the pair and calls cancel() (lines 86-89).
ParseReturns(e, how) ==
    /\ parseErr' = e
    /\ ctxErr' = IF ctxErr = Nil THEN Canceled ELSE ctxErr
    /\ cpc' = "done"
    /\ h' = [h EXCEPT !.exit = how.exit, !.stateErr = how.stateErr]

\* Lines 1853-1856: the popped state is nil.
ParseFinished ==
    /\ cpc = "pop"
    /\ pop(stateStack) = Nil
    /\ stateStack' = popped(stateStack)
    /\ ParseReturns(Nil, [exit |-> "empty", stateErr |-> Nil])
    /\ UNCHANGED << lexerVars, ppc, t, lexErr, c, next, token, root, mainVars >>
    /\ UNCHANGED treeVars

\* Lines 1858-1863: a state was popped and ctx is done.
ParseCanceled ==
    /\ cpc = "pop"
    /\ pop(stateStack) # Nil
    /\ parseCtxDone
    /\ stateStack' = popped(stateStack)
    /\ ParseReturns(ctxErr, [exit |-> "cancel", stateErr |-> Nil])
    /\ UNCHANGED << lexerVars, ppc, t, lexErr, c, next, token, root, mainVars >>
    /\ UNCHANGED treeVars

\* Lines 1866-1870: a state was popped, ctx is not done: the state runs.
ParseRunState ==
    /\ cpc = "pop"
    /\ pop(stateStack) # Nil
    /\ ~parseCtxDone
    /\ stateStack' = popped(stateStack)
    /\ cpc' = "run"
    /\ h' = [h EXCEPT !.stateRanDone = @ \/ ctxErr # Nil,
                      !.cur = pop(stateStack),
                      !.outOfTurn = @ \/ h.agenda = << >>
                                      \/ Head(h.agenda) # pop(stateStack),
                      !.agenda = IF @ = << >> THEN @ ELSE Tail(@)]
    /\ UNCHANGED << lexerVars, ctxErr, ppc, t, lexErr, c, next, token, root,
                    parseErr, mainVars >>
    /\ UNCHANGED treeVars

\* The parser takes tok as the result of next() (lines 1904-1910).
TakeNext(tok, hh) ==
    /\ token' = tok
    /\ next' = cacheAfterNext(tok)
    /\ h' = [hh EXCEPT !.got = Append(@, tok), !.lastTokenOp = "next"]

\* tokenChan.NextToken (line 43) delivers the head of the channel.
Received(hh) ==
    [hh EXCEPT !.eofTaken = @ \/ c[1].Type = TokenTypeEOF,
               !.recv = Append(@, c[1])]

\* peek without its test: every call takes a token from the source.
cachedNever == FALSE

\* Parser.peek's test of the cache (line 1895).
cached == next # NoToken

\* peek has returned.
Peeked(hh) == [hh EXCEPT !.lastTokenOp = "peek"]

\* The running state calls ctx.Next(): peek finds the cached token (lines
\* 1895-1897) or receives from the channel (line 1899, line 43), where it
\* waits while the channel is empty.
StateNext ==
    /\ cpc = "run"
    /\ h.tokenOps < MaxTokenOps
    /\ LET hh == [h EXCEPT !.tokenOps = @ + 1]
       IN  IF cached
             THEN /\ TakeNext(next, hh)
                  /\ UNCHANGED << c, cpc >>
             ELSE IF Len(c) > 0
               THEN /\ TakeNext(c[1], Received(hh))
                    /\ c' = Tail(c)
                    /\ UNCHANGED cpc
               ELSE /\ cpc' = "next"
                    /\ h' = hh
                    /\ UNCHANGED << c, next, token >>
    /\ UNCHANGED << lexerVars, ctxErr, ppc, t, lexErr, stateStack, root,
                    parseErr, mainVars >>
    /\ UNCHANGED treeVars

\* The running state calls ctx.Peek() (lines 1894-1902).
StatePeek ==
    /\ cpc = "run"
    /\ h.tokenOps < MaxTokenOps
    /\ LET hh == [h EXCEPT !.tokenOps = @ + 1]
       IN  IF cached
             THEN /\ h' = Peeked(hh)
                  /\ UNCHANGED << c, cpc, next >>
             ELSE IF Len(c) > 0
               THEN /\ next' = c[1]
                    /\ c' = Tail(c)
                    /\ h' = Peeked(Received(hh))
                    /\ UNCHANGED cpc
               ELSE /\ cpc' = "peek"
                    /\ h' = hh
                    /\ UNCHANGED << c, next >>
    /\ UNCHANGED << lexerVars, ctxErr, ppc, t, lexErr, stateStack, token, root,
                    parseErr, mainVars >>
    /\ UNCHANGED treeVars

\* A token arrives for a state waiting in <-tc.c (line 43).
StateReceive ==
    /\ cpc \in {"next", "peek"}
    /\ Len(c) > 0
    /\ c' = Tail(c)
    /\ cpc' = "run"
    /\ IF cpc = "next"
         THEN TakeNext(c[1], Received(h))
         ELSE /\ next' = c[1]
              /\ h' = Peeked(Received(h))
              /\ UNCHANGED token
    /\ UNCHANGED << lexerVars, ctxErr, ppc, t, lexErr, stateStack, root,
                    parseErr, mainVars >>
    /\ UNCHANGED treeVars

\* The running state calls ctx.PushState (lines 1726-1728, 1883-1887).
StatePushState ==
    /\ cpc = "run"
    /\ h.pushes < h.lim.pushes
    /\ \E states \in PushChoices :
         /\ stateStack' = pushState(stateStack, states)
         /\ h' = [h EXCEPT !.pushes = @ + 1,
                           !.nested = @ \/ h.agenda # << >>,
                           !.agenda = states \o @]
    /\ UNCHANGED << lexerVars, ctxErr, ppc, t, lexErr, c, cpc, next, token, root,
                    parseErr, mainVars >>
    /\ UNCHANGED treeVars

\* The nodes p.root may be: the root NewParser made (lines 1796-1802) and a
\* node a parser state made.
Nodes == { "root0", "node1" }

\* Parser.setRoot (lines 1889-1892): the new p.root, which is the new p.node
\* too.
setRoot(n) == n

\* The running state calls ctx.SetRoot with another node (lines 1733-1735);
\* Replace at the root (lines 1971-1973) changes p.root likewise.  The nodes
\* themselves are not followed here, see the tree operations below.
StateSetRoot ==
    /\ cpc = "run"
    /\ \E n \in Nodes \ {root} :
         /\ root' = setRoot(n)
         /\ node' = setRoot(n)
    /\ UNCHANGED << lexerVars, ctxErr, ppc, t, lexErr, c, cpc, stateStack, next,
                    token, parseErr, heap, mainVars, h >>

\* The running state returns nil: Parse goes round its loop (line 1870).
StateReturnsNil ==
    /\ cpc = "run"
    /\ cpc' = "pop"
    /\ UNCHANGED << lexerVars, ctxErr, ppc, t, lexErr, c, stateStack, next, token,
                    root, parseErr, mainVars, h >>
    /\ UNCHANGED treeVars

\* The running state returns an error (lines 1870-1880): io.EOF ends Parse
\* with a nil error, any other error is returned.
StateReturnsErr ==
    /\ cpc = "run"
    /\ \E e \in StateResults \ {Nil} :
         ParseReturns(parseResult(e),
                      [exit |-> IF IsEOF(e) THEN "eof" ELSE "err", stateErr |-> e])
    /\ UNCHANGED << lexerVars, ppc, t, lexErr, c, stateStack, next, token, root,
                    mainVars >>
    /\ UNCHANGED treeVars

-----------------------------------------------------------------------------
(* The parse tree.  A node's address is its identity; heap[a] holds the      *)
(* fields of the node at a.  Children is empty for a nil slice too.          *)

\* The addresses the allocator hands out, in this order.
NodePool == << "node1", "node2", "node3", "node4", "node5", "node6" >>

\* The address of the node allocated next, and the value a state gives it.
newAddr == NodePool[Cardinality(DOMAIN heap)]
newValue == Values[Cardinality(DOMAIN heap)]

\* newNode with the start of the token in the cache, if there is one.
newNodeFromPeeked(v) ==
    [Value    |-> v,
     Parent   |-> Nil,
     Children |-> << >>,
     Start    |-> IF next # NoToken THEN next.Start
                  ELSE IF token = NoToken THEN ZeroPos ELSE token.Start]

\* newNode with the start of the input for want of a token.
newNodeAtStart(v) ==
    [Value    |-> v,
     Parent   |-> Nil,
     Children |-> << >>,
     Start    |-> IF token = NoToken THEN StartPos ELSE token.Start]

\* Parser.newNode (lines 1925-1935): the fields of the node it allocates.
newNode(v) ==
    [Value    |-> v,
     Parent   |-> Nil,
     Children |-> << >>,
     Start    |-> IF token = NoToken THEN ZeroPos ELSE token.Start]

\* The result of a tree operation: the heap, p.node and p.root after it, and
\* the value it returns.
Unchanged == [heap |-> heap, node |-> node, root |-> root, ret |-> Nil]

\* ParserContext.NewNode (lines 1772-1774): a node outside the tree.
newNodeOp(v) ==
    [Unchanged EXCEPT !.heap = (newAddr :> newNode(v)) @@ heap, !.ret = newAddr]

\* addNodeHere that forgets the child's Parent.
addNodeHereNoParent(v) ==
    [Unchanged EXCEPT
       !.heap = (newAddr :> newNode(v))
                @@ [heap EXCEPT ![node].Children = Append(@, newAddr)],
       !.ret = newAddr]

\* Parser.addNodeHere (lines 1917-1923).
addNodeHere(v) ==
    [Unchanged EXCEPT
       !.heap = (newAddr :> [newNode(v) EXCEPT !.Parent = node])
                @@ [heap EXCEPT ![node].Children = Append(@, newAddr)],
       !.ret = newAddr]

\* Parser.push (lines 1912-1915).
push(v) == [addNodeHere(v) EXCEPT !.node = addNodeHere(v).ret]

\* Parser.climb (lines 1937-1944).
climb ==
    [Unchanged EXCEPT !.node = IF heap[node].Parent # Nil THEN heap[node].Parent
                               ELSE node,
                      !.ret = node]

\* ReplaceFirst that leaves s as it is.
ReplaceNone(s, a, n) == s

\* s with its first element equal to a replaced by n (lines 1953-1958).
ReplaceFirst(s, a, n) ==
    IF a \notin Range(s) THEN s
    ELSE LET i == CHOOSE j \in 1..Len(s) :
                    s[j] = a /\ \A k \in 1..(j - 1) : s[k] # a
         IN  [s EXCEPT ![i] = n]

\* replace without the rewiring of the children's Parent.
replaceNoRewire(v) ==
    LET n   == newAddr
        par == heap[node].Parent
        h1  == [a \in DOMAIN heap |->
                 IF a = par
                   THEN [heap[a] EXCEPT !.Children = ReplaceFirst(@, node, n)]
                   ELSE heap[a]]
    IN  [heap |-> (n :> [newNode(v) EXCEPT !.Parent = par,
                                            !.Children = heap[node].Children])
                  @@ h1,
         node |-> n,
         root |-> IF node = root THEN n ELSE root,
         ret  |-> heap[node].Value]

\* Parser.replace (lines 1947-1979).
replace(v) ==
    LET n    == newAddr
        par  == heap[node].Parent
        kids == heap[node].Children
        h1   == [a \in DOMAIN heap |->
                  LET x == IF a = par
                             THEN [heap[a] EXCEPT
                                     !.Children = ReplaceFirst(@, node, n)]
                             ELSE heap[a]
                  IN  IF a \in Range(kids) THEN [x EXCEPT !.Parent = n] ELSE x]
    IN  [heap |-> (n :> [newNode(v) EXCEPT !.Parent = par, !.Children = kids])
                  @@ h1,
         node |-> n,
         root |-> IF node = root THEN n ELSE root,
         ret  |-> heap[node].Value]

\* A parser state may allocate another node.
canAlloc == Cardinality(DOMAIN heap) <= MaxNodes

\* The running state's tree operation op, given arg, has the result res.
TreeOp(op, arg, res) ==
    /\ heap' = res.heap
    /\ node' = res.node
    /\ root' = res.root
    /\ h' = [h EXCEPT !.tree = [op |-> op, arg |-> arg, ret |-> res.ret,
                                peeked |-> next # NoToken]]
    /\ UNCHANGED << lexerVars, ctxErr, ppc, t, lexErr, c, cpc, stateStack, next,
                    token, parseErr, mainVars >>

\* The running state calls ctx.Push(v) (lines 1760-1762).
StatePush ==
    /\ cpc = "run"
    /\ canAlloc
    /\ \E v \in {newValue} : TreeOp("push", v, push(v))

\* The running state calls ctx.Node(v) (lines 1766-1768).
StateNode ==
    /\ cpc = "run"
    /\ canAlloc
    /\ \E v \in {newValue} : TreeOp("add_node", v, addNodeHere(v))

\* The running state calls ctx.NewNode(v) (lines 1772-1774).
StateNewNode ==
    /\ cpc = "run"
    /\ canAlloc
    /\ \E v \in {newValue} : TreeOp("new_node", v, newNodeOp(v))

\* The running state calls ctx.Climb() (lines 1780-1782).
StateClimb ==
    /\ cpc = "run"
    /\ TreeOp("climb", Nil, climb)

\* The running state calls ctx.Replace(v) (lines 1789-1791).
StateReplace ==
    /\ cpc = "run"
    /\ canAlloc
    /\ \E v \in {newValue} : TreeOp("replace", v, replace(v))

\* The running state calls ctx.SetRoot(n) (lines 1733-1735) with a node it
\* holds: any node allocated so far, in the tree or not.
StateSetRootHeld ==
    /\ cpc = "run"
    /\ \E n \in DOMAIN heap :
         TreeOp("set_root", n,
                [Unchanged EXCEPT !.root = setRoot(n), !.node = setRoot(n)])

-----------------------------------------------------------------------------
(* LexParse: after waitGrp.Wait() (lines 92-101) *)

\* Lines 94-99 with the parser's error put first.
aggregateParserFirst(le, pe) ==
    IF pe # Nil THEN pe
    ELSE IF IsCanceled(le) \/ IsEOF(le) THEN Nil ELSE le

\* Lines 94-99 without the test for context.Canceled.
aggregateNoSuppress(le, pe) ==
    IF le = Nil \/ IsEOF(le) THEN pe ELSE le

\* Lines 94-99 with lexErr forgotten.
aggregateParserOnly(le, pe) == pe

\* Lines 94-99: the error LexParse returns, from lexErr and parseErr.
aggregate(le, pe) ==
    IF le = Nil \/ IsCanceled(le) \/ IsEOF(le) THEN pe ELSE le

LexParseReturns ==
    /\ mpc = "wait"
    /\ ppc = "done"
    /\ cpc = "done"
    /\ retErr' = aggregate(lexErr, parseErr)
    /\ retRoot' = root
    /\ mpc' = "done"
    /\ UNCHANGED << lexerVars, ctxErr, ppc, t, lexErr, c, parserVars, h >>

\* LexParse up to the start of the two goroutines (lines 54-90): the lexer it
\* is given is a new one with any starting state, or one that has failed in
\* earlier use; NewParser (lines 1795-1813) is given any starting state.
Init ==
    /\ buf = << >>
    /\ state \in {Nil, "s"}
    /\ err \in {Nil, LexFail}
    /\ nextId = 1
    /\ r = NewReader(<< >>, ioEOF)
    /\ b = << >>
    /\ pos = StartPos
    /\ cursor = StartPos
    /\ ctxErr = Nil
    /\ ppc = "lex"
    /\ t = [Type |-> "zero", id |-> 0]
    /\ lexErr = Nil
    /\ c = << >>
    /\ cpc = "pop"
    /\ \E s0 \in {Nil, "s"} : stateStack = pushState(<< >>, << s0 >>)
    /\ next = NoToken
    /\ token = NoToken
    /\ root = RootAddr
    /\ node = RootAddr
    /\ heap = NewHeap
    /\ parseErr = Nil
    /\ mpc = "wait"
    /\ retRoot = Nil
    /\ retErr = Nil
    /\ h = [HInit EXCEPT !.firstErr = err, !.pre.err = err,
                         !.agenda = stateStack, !.keepEOF = FALSE]

Producer ==
    \/ NextTokenErr
    \/ NextTokenCanceled
    \/ NextTokenRun
    \/ NextTokenBuffered
    \/ NextTokenEnd
    \/ ProducerSend

Consumer ==
    \/ ParseFinished
    \/ ParseCanceled
    \/ ParseRunState
    \/ StateNext
    \/ StatePeek
    \/ StateReceive
    \/ StatePushState
    \/ StateSetRoot
    \/ StateReturnsNil
    \/ StateReturnsErr

Next ==
    \/ Producer
    \/ Consumer
    \/ CallerCancel
    \/ LexParseReturns

Spec == Init /\ [][Next]_vars

-----------------------------------------------------------------------------
(* SpecFixed: LexParse with states that are fixed in advance.  The lexer     *)
(* state emits one token and stays, h.plan.good times, and then ends the     *)
(* lexer returning h.plan.e; the parser state calls Next() h.plan.takes      *)
(* times and returns h.plan.ret.  The caller's context is never cancelled.   *)

\* The programs: h.plan is one of them.
Plans ==
    [ good  : 0..MaxLexRuns,
      e     : {Nil, ioEOF, LexFail},
      takes : 0..MaxTokenOps,
      ret   : StateResults ]

\* What the lexer state does when it is invoked now.
PlannedRun ==
    IF h.runs < h.plan.good
      THEN [pre |-> << "T" >>, io |-> FALSE, post |-> << >>, nxt |-> "s", e |-> Nil]
      ELSE [pre |-> << >>, io |-> FALSE, post |-> << >>, nxt |-> Nil,
            e |-> h.plan.e]

\* Lines 1323-1341: no token is buffered, a state is left and ctx is not done:
\* the state runs, and does what it always does.
NextTokenRunFixed ==
    /\ ppc = "lex"
    /\ ~lexerFailed
    /\ loopCond
    /\ ~lexCtxDone
    /\ \E o \in RunOutcomes \cap {PlannedRun} : LexRun(o)
    /\ UNCHANGED << ctxErr, lexErr, c, parserVars, mainVars >>
    /\ UNCHANGED cursorVars

\* The parser state calls ctx.Next() until it has made its calls ...
StateNextFixed ==
    /\ h.tokenOps < h.plan.takes
    /\ StateNext

\* ... and then returns what it always returns.
StateReturnsFixed ==
    /\ h.tokenOps = h.plan.takes
    /\ \/ h.plan.ret = Nil /\ StateReturnsNil
       \/ StateReturnsErr /\ h'.stateErr = h.plan.ret

\* LexParse up to the start of the two goroutines (lines 54-90), given a new
\* lexer and the two states.
InitFixed ==
    /\ buf = << >>
    /\ state = "s"
    /\ err = Nil
    /\ nextId = 1
    /\ r = NewReader(<< >>, ioEOF)
    /\ b = << >>
    /\ pos = StartPos
    /\ cursor = StartPos
    /\ ctxErr = Nil
    /\ ppc = "lex"
    /\ t = [Type |-> "zero", id |-> 0]
    /\ lexErr = Nil
    /\ c = << >>
    /\ cpc = "pop"
    /\ stateStack = pushState(<< >>, << "s" >>)
    /\ next = NoToken
    /\ token = NoToken
    /\ root = RootAddr
    /\ node = RootAddr
    /\ heap = NewHeap
    /\ parseErr = Nil
    /\ mpc = "wait"
    /\ retRoot = Nil
    /\ retErr = Nil
    /\ \E plan \in Plans :
         h = [HInit EXCEPT !.agenda = stateStack, !.plan = plan]

NextFixed ==
    \/ NextTokenCanceled
    \/ NextTokenRunFixed
    \/ NextTokenBuffered
    \/ NextTokenEnd
    \/ ProducerSend
    \/ ParseFinished
    \/ ParseRunState
    \/ StateNextFixed
    \/ StateReceive
    \/ StateReturnsFixed
    \/ LexParseReturns

SpecFixed == InitFixed /\ [][NextFixed]_vars

-----------------------------------------------------------------------------
(* SpecParser: LexParse from the moment its lexer has delivered all of a     *)
(* short input, so that what the parser states do with the state stack can   *)
(* be followed further than under Spec.                                      *)

\* The position after k runes "a".
PosAfter(k) == [Offset |-> k, Line |-> 1, Column |-> k + 1]

\* The token of the i-th rune of such an input, and the EOF token after k
\* runes, as CustomLexer.newToken builds them.
RuneToken(i) ==
    [Type |-> "T", id |-> i, Value |-> << "a" >>,
     Start |-> PosAfter(i - 1), End |-> PosAfter(i)]
EOFToken(k) ==
    [Type |-> TokenTypeEOF, id |-> k + 1, Value |-> << >>,
     Start |-> PosAfter(k), End |-> PosAfter(k)]

\* The lexer has turned an input of k runes into k tokens and the EOF token
\* and the producer has sent them all (lines 71-81); NewParser (lines
\* 1795-1813) was given any starting state and Parse is about to begin.
LexerDone(lim) ==
    \E k \in 0..(channelBufSize - 1) :
      /\ buf = << >>
      /\ state = Nil
      /\ err = Nil
      /\ nextId = k + 2
      /\ r = [NewReader([i \in 1..k |-> "a"], ioEOF) EXCEPT !.n = k]
      /\ b = << >>
      /\ pos = PosAfter(k)
      /\ cursor = PosAfter(k)
      /\ ctxErr = Nil
      /\ ppc = "done"
      /\ t = EOFToken(k)
      /\ lexErr = Nil
      /\ c = [i \in 1..(k + 1) |-> IF i <= k THEN RuneToken(i) ELSE EOFToken(k)]
      /\ cpc = "pop"
      /\ \E s0 \in {Nil, "s"} : stateStack = pushState(<< >>, << s0 >>)
      /\ next = NoToken
      /\ token = NoToken
      /\ root = RootAddr
      /\ node = RootAddr
      /\ heap = NewHeap
      /\ parseErr = Nil
      /\ mpc = "wait"
      /\ retRoot = Nil
      /\ retErr = Nil
      /\ h = [HInit EXCEPT !.emitted = [i \in 1..k |-> RuneToken(i)],
                           !.runs = k + 1,
                           !.calls = k + 1,
                           !.sawEOF = TRUE,
                           !.agenda = stateStack,
                           !.lim = lim]

\* The parser states push up to MaxParserPushes times, two different states
\* among them.
InitParser ==
    LexerDone([calls |-> MaxCalls, pushes |-> MaxParserPushes,
               states |-> {"s", "b"}])

\* What a parser state does to the token stream and the state stack, and the
\* nodes it pushes for what it reads.
StateCalls ==
    \/ StateNext
    \/ StatePeek
    \/ StatePushState
    \/ StatePush

NextParser ==
    \/ ParseFinished
    \/ ParseCanceled
    \/ ParseRunState
    \/ StateCalls
    \/ StateReturnsNil
    \/ StateReturnsErr
    \/ CallerCancel
    \/ LexParseReturns

SpecParser == InitParser /\ [][NextParser]_vars

-----------------------------------------------------------------------------
(* SpecStack: the same start; the state values handed to PushState include   *)
(* nil, which a ParseState variable can hold.                                *)

InitStack ==
    LexerDone([calls |-> MaxCalls, pushes |-> MaxParserPushes,
               states |-> {"s", Nil}])

NextStack ==
    \/ ParseFinished
    \/ ParseRunState
    \/ StateNext
    \/ StatePushState
    \/ StateReturnsNil
    \/ StateReturnsErr
    \/ LexParseReturns

SpecStack == InitStack /\ [][NextStack]_vars

-----------------------------------------------------------------------------
(* SpecTree: the same start with a parser state to run, an input of one rune *)
(* and a context that is never cancelled; the states build the tree.         *)

InitTree ==
    /\ LexerDone([calls |-> MaxCalls, pushes |-> MaxPushes, states |-> {"s"}])
    /\ pop(stateStack) # Nil
    /\ Len(c) = 2

\* What a parser state does to the tree.
StateTreeCalls ==
    \/ StatePush
    \/ StateNode
    \/ StateNewNode
    \/ StateClimb
    \/ StateReplace
    \/ StateSetRootHeld

NextTree ==
    \/ ParseFinished
    \/ ParseRunState
    \/ StateNext
    \/ StateTreeCalls
    \/ StateReturnsNil
    \/ StateReturnsErr
    \/ LexParseReturns

SpecTree == InitTree /\ [][NextTree]_vars

-----------------------------------------------------------------------------
(* SpecNodes: the same start; the state reads and peeks tokens and makes     *)
(* nodes in between.                                                         *)

\* The calls of a parser state that make a node.
StateNodeCalls ==
    \/ StatePush
    \/ StateNode
    \/ StateNewNode
    \/ StateReplace

NextNodes ==
    \/ ParseFinished
    \/ ParseRunState
    \/ StateNext
    \/ StatePeek
    \/ StateNodeCalls
    \/ StateReturnsNil
    \/ StateReturnsErr
    \/ LexParseReturns

SpecNodes == InitTree /\ [][NextNodes]_vars

-----------------------------------------------------------------------------
(* SpecShape: the same start; the state builds the tree from the root        *)
(* NewParser made, without SetRoot.                                          *)

\* What a parser state does to the tree short of giving it another root.
StateShapeCalls ==
    \/ StatePush
    \/ StateNode
    \/ StateNewNode
    \/ StateClimb
    \/ StateReplace

NextShape ==
    \/ ParseFinished
    \/ ParseRunState
    \/ StateNext
    \/ StateShapeCalls
    \/ StateReturnsNil
    \/ StateReturnsErr
    \/ LexParseReturns

SpecShape == InitTree /\ [][NextShape]_vars

-----------------------------------------------------------------------------
(* Properties of LexParse, checked under Spec. *)

\* C1: once Parse has returned and cancel() has run, the producer goroutine
\* is never stuck: until it ends it always has a step to take, whatever the
\* channel holds and whatever the lexer still has to deliver.
C1_CancelUnblocksProducer ==
    (cpc = "done" /\ ppc # "done") => ENABLED Producer

\* The tokens parser states got from next() are in order and without
\* repetition a prefix of those the lexer states emitted ...
GotEmitted(g) == IsPrefix(g, h.emitted)

\* ... followed, at the end only, by the EOF token NextToken made itself.
GotThenEOF(g) ==
    /\ Len(g) > 0
    /\ GotEmitted(SubSeq(g, 1, Len(g) - 1))
    /\ g[Len(g)].Type = TokenTypeEOF
    /\ g[Len(g)] \notin Range(h.emitted)

\* C2: the sequence of tokens Parser.nextToken has returned is a prefix of
\* the sequence of tokens emit appended to l.buf, followed at most by the one
\* EOF token the lexer made: l.buf, the channel and the parser's cache neither
\* reorder nor repeat a token.
C2_TokensInOrder == GotEmitted(h.got) \/ GotThenEOF(h.got)

\* C2's case: the parser has taken an emitted token and then the lexer's EOF
\* token, after the producer and the consumer both ran.
C2_Witness ==
    /\ Len(h.got) = 2
    /\ h.got[1] \in Range(h.emitted)
    /\ h.got[2].Type = TokenTypeEOF
    /\ h.got[2] \notin Range(h.emitted)

\* errors.Is(e, io.EOF) or errors.Is(e, context.Canceled), or no error.
Suppressed(e) == e = Nil \/ IsEOF(e) \/ IsCanceled(e)

\* C3 as stated: when Parse returned an error and the lexer recorded one that
\* is neither io.EOF nor context.Canceled, LexParse returns the parser's.
C3_ParserErrorFirst ==
    (mpc = "done" /\ parseErr # Nil /\ ~Suppressed(err)) => retErr = parseErr

\* C3 as amended: when Parse returned an error and the lexer recorded one
\* that is neither io.EOF nor context.Canceled, LexParse returns the lexer's
\* error; it returns the parser's error when the lexer recorded none, or
\* only a cancellation.
C3_LexerErrorFirst ==
    mpc = "done" =>
        /\ ~Suppressed(err) => retErr = err
        /\ Suppressed(err) => retErr = parseErr

\* C3's case: both sides failed and LexParse has returned.
C3_Witness ==
    /\ mpc = "done"
    /\ parseErr = ParseFail
    /\ err = LexFail

\* C4: if the caller's context is cancelled while LexParse runs, before Parse
\* has returned (a parser state is running, or waiting for a token) and with
\* no lexer error recorded, LexParse returns a non-nil error.
C4_CallerCancelSurfaces ==
    (mpc = "done" /\ h.extFired /\ h.extClean) => retErr # Nil

\* C5: when Parse returns a nil error and the only error the lexer recorded
\* is the context.Canceled that follows LexParse's own cancel(), LexParse
\* returns p.root and a nil error.
C5_OwnCancelNotReported ==
    (mpc = "done" /\ parseErr = Nil /\ err = Canceled /\ ~h.extFired) =>
        (retErr = Nil /\ retRoot = root)

\* C5's case: the lexer was stopped by the parser's completion, after it had
\* run a state, and LexParse has returned.
C5_Witness ==
    /\ mpc = "done"
    /\ parseErr = Nil
    /\ err = Canceled
    /\ ~h.extFired
    /\ h.runs > 0
    /\ root # "root0"

\* C6: whenever Parse returned an error, or the lexer recorded an error other
\* than a cancellation (setErr never records io.EOF), the error LexParse
\* returns is not nil.
C6_NoErrorSwallowed ==
    (mpc = "done" /\ (parseErr # Nil \/ (err # Nil /\ ~IsCanceled(err)))) =>
        retErr # Nil

\* C6's case: only the lexer failed, in a state it ran, and LexParse has
\* returned.
C6_Witness ==
    /\ mpc = "done"
    /\ parseErr = Nil
    /\ err \in {LexFail, IOFail}
    /\ h.runs > 0

\* C7: once the parser has received the EOF token, a parser state that calls
\* next() or peek() again is not left waiting on the channel: it is never in
\* <-tc.c with the channel empty and the producer gone.
C7_NoWaitAfterEOF ==
    ~(h.eofTaken /\ cpc \in {"next", "peek"} /\ Len(c) = 0 /\ ppc = "done")

-----------------------------------------------------------------------------
(* Properties of CustomLexer.NextToken, checked under SpecLexer. *)

\* C8: after a lexer state has returned io.EOF, with whatever next state, no
\* lexer state is invoked again, and a NextToken call that begins with l.buf
\* empty returns an EOF-typed token.
C8_EOFEndsLexer ==
    /\ ~h.ranAfterEOF
    /\ (ppc = "send" /\ h.pre.eof /\ h.pre.empty) => t.Type = TokenTypeEOF

\* C9: once an error other than io.EOF is recorded, no lexer state is run
\* again, every NextToken call returns an EOF-typed token, and Err() is the
\* first error recorded: a later one never replaces it.
C9_ErrorSticky ==
    /\ ~h.ranAfterErr
    /\ (ppc = "send" /\ err # Nil) => t.Type = TokenTypeEOF
    /\ h.firstErr # Nil => err = h.firstErr
    /\ err # Nil => h.firstErr # Nil

\* C9's case: a state returned an error, and a later NextToken call, begun
\* with the error recorded, has returned.
C9_Witness ==
    /\ ppc = "send"
    /\ err = LexFail
    /\ h.pre.err = LexFail
    /\ h.calls >= 3

\* C10 as stated: with ctx done no lexer state is run, and a NextToken call
\* that begins with ctx done and l.buf empty returns an EOF-typed token and
\* leaves Err() reporting the cancellation.
C10_CancelAlwaysReported ==
    /\ ~h.ranCancelled
    /\ (ppc = "send" /\ h.pre.done /\ h.pre.empty) =>
           (t.Type = TokenTypeEOF /\ err = ctxErr)

\* C10 as amended: with ctx done no lexer state is run; a NextToken call that
\* begins with ctx done returns a token queued earlier, if there is one and
\* no error is recorded, and an EOF-typed token if l.buf is empty; Err()
\* reports the cancellation from then on if no error was recorded before and
\* a state was still to run, and is left as it was otherwise: the earlier
\* error, or nil for a lexer whose state is nil.
C10_CancelStopsStates ==
    /\ ~h.ranCancelled
    /\ (ppc = "send" /\ h.pre.done /\ ~h.pre.empty /\ h.pre.err = Nil) =>
           (t \in Range(h.emitted) /\ err = Nil)
    /\ (ppc = "send" /\ h.pre.done /\ h.pre.empty) =>
           /\ t.Type = TokenTypeEOF
           /\ err = IF h.pre.err # Nil THEN h.pre.err
                    ELSE IF state = Nil THEN Nil ELSE ctxErr
    /\ h.cancelSeen # Nil => err = h.cancelSeen

\* C10's case: a lexer that had run a state and still had one to run was
\* called with ctx done, and returned.
C10_Witness ==
    /\ ppc = "send"
    /\ h.pre.done
    /\ h.pre.empty
    /\ h.pre.err = Nil
    /\ state # Nil
    /\ h.runs > 0
    /\ err = Canceled
    /\ t.Type = TokenTypeEOF

-----------------------------------------------------------------------------
(* Properties of Parser.Parse and of the parser's token access, checked      *)
(* under Spec.                                                               *)

\* Parse has returned a nil error.
CleanExit == cpc = "done" /\ parseErr = Nil

C15_CancelStopsParse ==
    /\ ~h.stateRanDone
    /\ h.exit = "cancel" =>
          /\ cpc = "done"
          /\ parseErr = ctxErr
          /\ parseErr \in {Canceled, DeadlineExceeded}
          /\ mpc = "done" => retRoot = root

\* C15's case: the caller's context ended while a state ran, a state was
\* popped after that, with another one beneath it, and LexParse has returned.
C15_Witness ==
    /\ mpc = "done"
    /\ h.exit = "cancel"
    /\ h.extFired
    /\ stateStack # << >>
    /\ root # RootAddr
    /\ retRoot = root

\* The tokens next() has returned and the one peek() holds, in order.
Delivered == h.got \o (IF next # NoToken THEN << next >> ELSE << >>)

\* C17: the parser takes from its source the tokens next() has returned and
\* at most one more, the token peek() returns until next() returns it; next()
\* leaves nothing cached; the tokens next() returns are the source's, in the
\* source's order.
C17_OneTokenLookahead ==
    /\ h.recv = Delivered
    /\ Len(h.recv) <= Len(h.got) + 1
    /\ (h.lastTokenOp = "next" /\ cpc \notin {"next", "peek"}) =>
          /\ next = NoToken
          /\ token = h.got[Len(h.got)]
    /\ (h.lastTokenOp = "peek" /\ cpc \notin {"next", "peek"}) =>
          /\ next # NoToken
          /\ next = h.recv[Len(h.recv)]

\* C17's case: peek(), then next(), which returned the token peek() had
\* taken, with a second token waiting in the source.
C17_Witness ==
    /\ h.tokenOps = 2
    /\ h.lastTokenOp = "next"
    /\ Len(h.got) = 1
    /\ h.recv = h.got
    /\ next = NoToken
    /\ Len(c) > 0

-----------------------------------------------------------------------------
(* Properties of the cursor and of the tokens, checked under SpecCursor. *)

\* C11: every EOF-typed token NextToken returns has an empty value and starts
\* and ends at the reader position; on an empty input that is line 1,
\* column 1, offset 0.
C11_EOFTokenAtReaderPos ==
    (ppc = "send" /\ t.Type = TokenTypeEOF) =>
        /\ t.Value = << >>
        /\ t.Start = pos
        /\ t.End = pos
        /\ r.data = << >> => t.End = StartPos

\* C12: Err() never reports end-of-input: l.err is the first error other
\* than io.EOF that was recorded, and nil if there was none, also after a
\* lexer state returned io.EOF and after a cursor operation met the end of
\* the stream.
C12_ErrNeverEOF ==
    /\ ~IsEOF(err)
    /\ err = h.firstErr

\* C12's case: a cursor operation met the end of the stream, the state then
\* returned io.EOF, NextToken returned its EOF token and Err() is nil.
C12_Witness ==
    /\ ppc = "send"
    /\ t.Type = TokenTypeEOF
    /\ h.endSeen
    /\ h.sawEOF
    /\ err = Nil

-----------------------------------------------------------------------------
(* Properties of Parser.Parse with its state stack, checked under            *)
(* SpecParser.                                                               *)

\* The nodes found from n by following Children at most d times.
RECURSIVE SubtreeUpTo(_, _)
SubtreeUpTo(n, d) ==
    IF d = 0 THEN {n}
    ELSE {n} \cup UNION { SubtreeUpTo(k, d - 1) : k \in Range(heap[n].Children) }

\* The nodes of the tree under n.
Subtree(n) == SubtreeUpTo(n, Cardinality(DOMAIN heap))

\* C14: once a parser state has returned an error other than io.EOF, Parse
\* has returned: no state runs any more, Parse's error is the state's error,
\* the tree under p.root holds every node made before the error, and LexParse
\* returns that root with that error.
C14_ErrorStopsParse ==
    h.exit = "err" =>
      /\ cpc = "done"
      /\ h.stateErr # Nil
      /\ ~IsEOF(h.stateErr)
      /\ parseErr = h.stateErr
      /\ DOMAIN heap \subseteq Subtree(root)
      /\ mpc = "done" => (retRoot = root /\ retErr = h.stateErr)

\* C14's case: a state returned an error after nodes were pushed and with
\* states left on the stack, and LexParse has returned.
C14_Witness ==
    /\ h.exit = "err"
    /\ mpc = "done"
    /\ retErr = ParseFail
    /\ stateStack # << >>
    /\ Cardinality(DOMAIN heap) > 2
    /\ Subtree(retRoot) = DOMAIN heap

\* C16: the states run in the order of the agenda, on which every
\* PushState(s1, ..., sk) puts s1, ..., sk in that order ahead of all states
\* due before: s1 runs next, and what a state pushes while it runs is run
\* before the states that were pushed with it.  The stack always holds the
\* agenda, the state due next on top.
C16_PushedStatesRunInOrder ==
    /\ ~h.outOfTurn
    /\ cpc # "done" => stateStack = Reverse(h.agenda)

\* C16's case: a state pushed states while states pushed earlier were still
\* due, all of them have run since, and the one running now, the last, is the
\* second state of a PushState(s, b).
C16_Witness ==
    /\ h.nested
    /\ h.pushes = 2
    /\ cpc = "run"
    /\ h.cur = "b"
    /\ h.agenda = << >>
    /\ stateStack = << >>

-----------------------------------------------------------------------------
(* Properties of the tree operations, checked under SpecTree. *)

\* The step is a call of Push or Node: both allocate.
NewChildStep == h'.tree.op \in {"push", "add_node"} /\ heap' # heap

\* C18: Push(v) and Node(v) make exactly one node, with value v, no children
\* and the current node as Parent, and append it to the current node's
\* Children; every other node and every other field stay as they were, and so
\* does p.root.  Both return the new node; Push makes it the current node and
\* Node leaves the current node alone.
C18_NewChild ==
    [][NewChildStep =>
         LET n == h'.tree.ret
         IN  /\ n \notin DOMAIN heap
             /\ DOMAIN heap' = DOMAIN heap \cup {n}
             /\ heap'[n] = [Value    |-> h'.tree.arg,
                            Parent   |-> node,
                            Children |-> << >>,
                            Start    |-> heap'[n].Start]
             /\ heap'[node] = [heap[node] EXCEPT !.Children = Append(@, n)]
             /\ \A a \in DOMAIN heap \ {node} : heap'[a] = heap[a]
             /\ root' = root
             /\ node' = IF h'.tree.op = "push" THEN n ELSE node]_vars

\* C18's case: Push has just made a node with its value, as the second
\* child of a node that had one, and the new node is the current node.
C18_Witness ==
    /\ h.tree.op = "push"
    /\ node = h.tree.ret
    /\ heap[node].Value = h.tree.arg
    /\ heap[node].Parent # Nil
    /\ Len(heap[heap[node].Parent].Children) = 2
    /\ heap[heap[node].Parent].Children[2] = node

\* The step is a call of Climb.
ClimbStep ==
    /\ cpc = "run"
    /\ cpc' = "run"
    /\ h'.tree.op = "climb"
    /\ h'.tokenOps = h.tokenOps

\* C19: Climb never changes the tree; called while the current node is the
\* root it leaves the current node alone and returns the root, and called at
\* a node with a parent that is not the root it moves the current node to
\* that parent and returns the node it left.
C19_ClimbStopsAtRoot ==
    [][ClimbStep =>
         /\ heap' = heap
         /\ root' = root
         /\ node = root => (node' = node /\ h'.tree.ret = root)
         /\ (node # root /\ heap[node].Parent # Nil) =>
               (node' = heap[node].Parent /\ h'.tree.ret = node)]_vars

\* The step is a call of Replace, which allocates.
ReplaceStep == h'.tree.op = "replace" /\ heap' # heap

\* C20: Replace(v) returns the value of the node that was current and makes
\* one node, the new current node, with value v and with the Parent and the
\* Children, in their order, of the node that was current; that Parent's
\* Children hold the new node where they held the old one, every child's
\* Parent is the new node, and p.root is the new node if it was the old one.
\* Nothing else in the tree changes.
C20_ReplaceInPlace ==
    [][ReplaceStep =>
         LET n    == node'
             par  == heap[node].Parent
             kids == Range(heap[node].Children)
         IN  /\ n \notin DOMAIN heap
             /\ DOMAIN heap' = DOMAIN heap \cup {n}
             /\ h'.tree.ret = heap[node].Value
             /\ heap'[n].Value = h'.tree.arg
             /\ heap'[n].Parent = par
             /\ heap'[n].Children = heap[node].Children
             /\ \A k \in kids : heap'[k] = [heap[k] EXCEPT !.Parent = n]
             /\ par # Nil =>
                   heap'[par] =
                     [heap[par] EXCEPT
                        !.Children = [j \in DOMAIN @ |->
                                        IF @[j] = node THEN n ELSE @[j]]]
             /\ \A a \in DOMAIN heap \ (kids \cup {par}) : heap'[a] = heap[a]
             /\ root' = IF node = root THEN n ELSE root]_vars

\* C20's case: Replace has just replaced a node that had a parent and a
\* child: the new node is the current node, it is where the old node was in
\* the parent's Children, and the child's Parent is the new node.
C20_Witness ==
    /\ h.tree.op = "replace"
    /\ heap[node].Value = h.tree.arg
    /\ heap[node].Parent # Nil
    /\ node \in Range(heap[heap[node].Parent].Children)
    /\ Len(heap[node].Children) = 1
    /\ heap[heap[node].Children[1]].Parent = node
    /\ h.tree.ret \in Range(Values)

-----------------------------------------------------------------------------
(* Properties of the nodes' Start, checked under SpecNodes. *)

\* The step allocates a node: a call of Push, Node, NewNode or Replace.
NewNodeStep == DOMAIN heap' # DOMAIN heap

\* The node the step allocates.
NewNodeOf == CHOOSE n \in DOMAIN heap' : n \notin DOMAIN heap

\* C21: once Next has returned a token, a node made by Push, Node, NewNode
\* or Replace starts where the last token Next returned starts, whatever
\* token Peek has put in the cache since.
C21_StartOfLastNext ==
    [][(NewNodeStep /\ h.got # << >>) =>
         heap'[NewNodeOf].Start = h.got[Len(h.got)].Start]_vars

\* C21's case: Next returned the first token, Peek then showed the second,
\* which starts elsewhere, and a node made after that starts where the first
\* token starts.
C21_Witness ==
    /\ Len(h.got) = 1
    /\ next # NoToken
    /\ next.Start # h.got[1].Start
    /\ h.lastTokenOp = "peek"
    /\ Cardinality(DOMAIN heap) = 2
    /\ h.tree.op # "none"
    /\ h.tree.peeked
    /\ heap[NodePool[1]].Start = h.got[1].Start

\* C22 as stated: a node made before Next has returned any token starts at
\* line 1, column 1, offset 0, as the root NewParser makes does.
C22_StartOfInput ==
    [][(NewNodeStep /\ h.got = << >>) =>
         heap'[NewNodeOf].Start = StartPos]_vars

\* C22 amended: a node made before Next has returned any token has the zero
\* Position, line 0, column 0, offset 0, as its Start, which is not the Start
\* of the root NewParser makes, whether or not Peek was called.
C22_StartIsZero ==
    [][(NewNodeStep /\ h.got = << >>) =>
         /\ heap'[NewNodeOf].Start = ZeroPos
         /\ heap'[NewNodeOf].Start # NewHeap[RootAddr].Start]_vars

\* C22's case: no token was taken with Next, one was peeked, and the node a
\* state made after that has the zero Position while the root still has the
\* start of the input.
C22_Witness ==
    /\ h.got = << >>
    /\ h.lastTokenOp = "peek"
    /\ Cardinality(DOMAIN heap) = 2
    /\ h.tree.op # "none"
    /\ h.tree.peeked
    /\ heap[NodePool[1]].Start = ZeroPos
    /\ RootAddr \in DOMAIN heap
    /\ heap[RootAddr].Start = StartPos

-----------------------------------------------------------------------------
(* Properties of the calls a lexer state makes on its context, checked under *)
(* SpecRunes.  A step is a call of op when it sets h.call to a call of op.   *)

\* The step is a call of op by the running state.
CallStep(op) == h'.ops = h.ops + 1 /\ h'.call.op = op

\* The runes the reader has consumed, and the runes it has left.
Consumed == SubSeq(r.data, 1, r.n)
Left == SubSeq(r.data, r.n + 1, Len(r.data))

\* C23: Emit(typ) on a lexer without an error appends one token to l.buf and
\* returns it: its type is typ, its value the text in progress, its start
\* l.cursor and its end l.pos; afterwards l.cursor is l.pos and the text in
\* progress is empty, and the reader is where it was.  On a lexer with an
\* error Emit returns nil and changes nothing.
C23_Emit ==
    [][CallStep("emit") =>
         IF err = Nil
           THEN /\ h'.call.ret # NoToken
                /\ h'.call.ret.Type = h'.call.arg
                /\ h'.call.ret.Value = b
                /\ h'.call.ret.Start = cursor
                /\ h'.call.ret.End = pos
                /\ buf' = Append(buf, h'.call.ret)
                /\ cursor' = pos
                /\ b' = << >>
                /\ UNCHANGED << r, pos, err, state >>
           ELSE /\ h'.call.ret = NoToken
                /\ UNCHANGED << buf, r, b, pos, cursor, err, state >>]_vars

\* C23's case: Emit has just returned a token with text in it, the last of
\* l.buf, and l.cursor is l.pos with no text in progress.
C23_Witness ==
    /\ h.call.op = "emit"
    /\ h.call.ret # NoToken
    /\ h.call.ret.Value # << >>
    /\ h.call.ret.Start # h.call.ret.End
    /\ buf # << >>
    /\ buf[Len(buf)] = h.call.ret
    /\ cursor = pos
    /\ b = << >>

\* The position after the runes s, counted from the start of the input.
LastNewline(s) ==
    IF \E i \in 1..Len(s) : s[i] = NL
      THEN CHOOSE i \in 1..Len(s) : s[i] = NL /\ \A k \in (i + 1)..Len(s) : s[k] # NL
      ELSE 0
PositionAfter(s) ==
    [Offset |-> Len(s),
     Line   |-> 1 + Cardinality({ i \in 1..Len(s) : s[i] = NL }),
     Column |-> 1 + Len(s) - LastNewline(s)]

\* C24: l.pos is the position after the runes consumed, whatever calls
\* consumed them: the offset is their number, the line 1 plus the number of
\* newlines among them, the column 1 plus the number of runes after the last
\* newline; and a call made with no rune left leaves l.pos as it is.
C24_PosFollowsConsumed ==
    /\ [](r.n \in 0..Len(r.data) /\ pos = PositionAfter(Consumed))
    /\ [][Left = << >> => pos' = pos]_vars

\* C24's case: a newline and the rune after it were consumed, which is all
\* there was, and NextRune was then called at the end of the input.
C24_Witness ==
    /\ r.n = 2
    /\ Left = << >>
    /\ Consumed[1] = NL
    /\ pos = [Offset |-> 2, Line |-> 2, Column |-> 2]
    /\ h.call.op = "next_rune"
    /\ h.call.ret = EOFRune
    /\ err = Nil

\* C25: on a lexer without an error PeekN(n) returns the first n of the runes
\* left, all of them if they are fewer, and Peek the first of them, the EOF
\* rune if none is left; neither moves the reader, l.pos, l.cursor or the text
\* in progress, neither records an error when the input ends before n runes,
\* and a PeekN right after a PeekN of as many runes returns the same runes.
C25_PeekIsPure ==
    [][((CallStep("peek_n") \/ CallStep("peek")) /\ err = Nil) =>
         /\ UNCHANGED << r, b, pos, cursor, buf >>
         /\ CallStep("peek_n") =>
               /\ h'.call.ret = SubSeq(Left, 1, Min(h'.call.arg, Len(Left)))
               /\ (r.tail = ioEOF \/ h'.call.arg <= Len(Left)) => err' = Nil
               /\ (h.call.op = "peek_n" /\ h.call.arg = h'.call.arg) =>
                     h'.call.ret = h.call.ret
         /\ CallStep("peek") =>
               /\ h'.call.ret = IF Left = << >> THEN EOFRune ELSE Left[1]
               /\ (r.tail = ioEOF \/ Left # << >>) => err' = Nil]_vars

\* C25's case: with one rune read into the text in progress and one rune left
\* before the end of the input, the state's third call was a PeekN(2): it
\* returned the rune left, met the end of the input and recorded no error.
C25_Witness ==
    /\ h.ops = 3
    /\ h.call.op = "peek_n"
    /\ h.call.arg = 2
    /\ Len(h.call.ret) = 1
    /\ h.call.ret = Left
    /\ r.tail = ioEOF
    /\ err = Nil
    /\ r.n = 1
    /\ b = Consumed
    /\ h.endSeen

\* The stream gives the call n runes, or the end of the input before them:
\* no I/O error stands in the way.
NoFailureWithin(n) == r.tail = ioEOF \/ n <= Len(Left)

\* The lexer's reading fields after the step.
ReadingAfter == [r |-> r', b |-> b', pos |-> pos', err |-> err']

\* C26: on a lexer without an error AdvanceN(n) with m runes left consumes
\* the first n of them, all m if m < n, and returns how many; it appends
\* just these to the text in progress and leaves l.cursor alone.  A Peek
\* after it returns the rune PeekN(n + 1) showed last before it, and with
\* m < n the reader is left at the end of the input.
C26_AdvanceN ==
    [][(CallStep("advance_n") /\ err = Nil /\ NoFailureWithin(h'.call.arg)) =>
         LET n      == h'.call.arg
             k      == Min(n, Len(Left))
             before == peekNAt(Reading, n + 1).runes
             after  == peekNAt(ReadingAfter, 1).runes
         IN  /\ h'.call.ret = k
             /\ r' = [r EXCEPT !.n = @ + k]
             /\ b' = b \o SubSeq(Left, 1, k)
             /\ cursor' = cursor
             /\ err' = Nil
             /\ buf' = buf
             /\ after = IF Len(before) = n + 1 THEN << before[n + 1] >> ELSE << >>
             /\ Len(Left) < n => r'.n = Len(r.data)]_vars

\* C26's case: after one rune was read, AdvanceN(2) found one rune left: it
\* returned 1, the text in progress is the whole input, l.cursor is still at
\* the start and the reader at the end of the input.
C26_Witness ==
    /\ h.call.op = "advance_n"
    /\ h.call.arg = 2
    /\ h.call.ret = 1
    /\ r.n = 2
    /\ Left = << >>
    /\ b = r.data
    /\ cursor = StartPos
    /\ err = Nil

\* C27: on a lexer without an error DiscardN(n) leaves l.cursor at l.pos and
\* no text in progress, whatever it discarded, the text read before the call
\* being dropped too; with m runes left it consumes the first n of them, all
\* m if m < n, and returns how many.
C27_DiscardN ==
    [][(CallStep("discard_n") /\ err = Nil) =>
         LET n == h'.call.arg
             k == Min(n, Len(Left))
         IN  /\ cursor' = pos'
             /\ b' = << >>
             /\ buf' = buf
             /\ NoFailureWithin(n) =>
                   /\ h'.call.ret = k
                   /\ r' = [r EXCEPT !.n = @ + k]
                   /\ err' = Nil]_vars

\* C27's case: the whole input of two runes was read into the text in
\* progress, and DiscardN, called with nothing left, returned 0 and left
\* l.cursor at l.pos, at the end of the input, and no text in progress.
C27_Witness ==
    /\ h.call.op = "discard_n"
    /\ h.call.text = r.data
    /\ h.call.ret = 0
    /\ r.n = 2
    /\ Left = << >>
    /\ cursor = pos
    /\ cursor.Offset = 2
    /\ b = << >>
    /\ err = Nil

\* The needles of query that the input continues with after its first i
\* runes, and the offsets from the reader on where there is one.
NeedlesAt(query, i) ==
    { j \in 1..Len(query) : IsPrefix(query[j], SubSeq(r.data, i + 1, Len(r.data))) }
MatchOffsets(query) == { i \in r.n..Len(r.data) : NeedlesAt(query, i) # {} }

\* Where a search for query from the reader on ends, the end of the input if
\* no needle occurs, and the needle found there, << >> if none.
Leftmost(query) ==
    IF MatchOffsets(query) = {} THEN Len(r.data)
    ELSE CHOOSE i \in MatchOffsets(query) : \A k \in MatchOffsets(query) : i <= k
FirstNeedleAt(query, i) ==
    IF NeedlesAt(query, i) = {} THEN << >>
    ELSE query[CHOOSE j \in NeedlesAt(query, i) : \A k \in NeedlesAt(query, i) : j <= k]

\* The step is a call of op on a lexer without an error, over a stream that
\* ends without an I/O error.
SearchStep(op) == CallStep(op) /\ err = Nil /\ r.tail = ioEOF

\* What Find does for the needles it is given: the reader stops at the
\* leftmost offset where a needle matches, the end of the input if there is
\* none; the needle returned is the first in the list that matches there; the
\* runes skipped are added to the text in progress; l.cursor stays.
FoundLeftmost ==
    LET query == h'.call.arg
        i     == Leftmost(query)
    IN  /\ r' = [r EXCEPT !.n = i]
        /\ h'.call.ret = FirstNeedleAt(query, i)
        /\ b' = b \o SubSeq(r.data, r.n + 1, i)
        /\ cursor' = cursor
        /\ err' = Nil
        /\ buf' = buf

\* C28 as stated: Find does so for every list of needles, none of them
\* empty.
C28_FindLeftmost == [][SearchStep("find") => FoundLeftmost]_vars

\* C28 amended: Find does so for every list of one needle or more, none of
\* them empty; given no needle it returns "" and changes nothing.
C28_FindLeftmostOfSome ==
    [][SearchStep("find") =>
         IF h'.call.arg # << >> THEN FoundLeftmost
         ELSE /\ h'.call.ret = << >>
              /\ UNCHANGED << r, b, pos, cursor, err, buf >>]_vars

\* C28's case: Find was given a needle of two runes and one of one rune, and
\* found the short one as the last rune of the input, after a rune it added
\* to the text in progress.
C28_Witness ==
    /\ h.call.op = "find"
    /\ h.call.arg = << << "a", NL >>, << "a" >> >>
    /\ h.call.ret = << "a" >>
    /\ r.tail = ioEOF
    /\ Len(r.data) = 2
    /\ r.n = 1
    /\ Left = << "a" >>
    /\ b = << r.data[1] >>
    /\ cursor = StartPos
    /\ err = Nil

\* C29: DiscardTo, given one needle or more, returns the needle Find would
\* return and leaves the reader where Find would leave it, with l.cursor at
\* l.pos and no text in progress, as Ignore after Find leaves them.
C29_DiscardToIsFindThenIgnore ==
    [][(SearchStep("discard_to") /\ h'.call.arg # << >>) =>
         LET f == findAt(Reading, h'.call.arg)
         IN  /\ h'.call.ret = f.ret
             /\ r' = f.l.r
             /\ pos' = f.l.pos
             /\ cursor' = ignore(f.l).cursor
             /\ b' = ignore(f.l).b]_vars

\* The calls that read from the stream, and what each returns when it has
\* nothing to give.
ReadCalls ==
    {"next_rune", "peek", "peek_n", "advance_n", "discard_n", "find", "discard_to"}
Nothing(op) ==
    CASE op \in {"next_rune", "peek"}        -> EOFRune
      [] op \in {"advance_n", "discard_n"}   -> 0
      [] OTHER                               -> << >>

\* The step is a call to which the stream answers with its I/O error: the
\* call asks for more runes than are left before the failure.
FailingStep ==
    /\ err = Nil
    /\ r.tail = IOFail
    /\ \/ (CallStep("next_rune") \/ CallStep("peek")) /\ Left = << >>
       \/ /\ CallStep("peek_n") \/ CallStep("advance_n") \/ CallStep("discard_n")
          /\ h'.call.arg > Len(Left)
       \/ /\ CallStep("find") \/ CallStep("discard_to")
          /\ maxLen(h'.call.arg) > Len(Left)

\* C30: a call to which the stream answers with an I/O error records it in
\* l.err, and l.err is that first error ever after.  Every call made with
\* an error recorded returns what it returns when it has nothing to give: the
\* EOF rune from NextRune and Peek, no runes from PeekN, 0 from AdvanceN and
\* DiscardN, "" from Find and DiscardTo; it leaves the reader, l.pos and l.err
\* as they are.
C30_StickyError ==
    /\ [](err # Nil => (err = IOFail /\ h.firstErr = IOFail))
    /\ [][FailingStep => err' = IOFail]_vars
    /\ [][\A op \in ReadCalls :
            (CallStep(op) /\ err # Nil) =>
              /\ h'.call.ret = Nothing(op)
              /\ UNCHANGED << r, pos, err >>]_vars

\* C30's case: the stream failed while a rune was still unread, and NextRune,
\* called after that, returned the EOF rune and left the rune unread and
\* l.pos where it was, with the error still recorded.
C30_Witness ==
    /\ h.call.op = "next_rune"
    /\ h.call.ret = EOFRune
    /\ err = IOFail
    /\ h.firstErr = IOFail
    /\ h.ops >= 2
    /\ Left # << >>
    /\ pos = PositionAfter(Consumed)

-----------------------------------------------------------------------------
(* The emitted-token queue of CustomLexer, checked under SpecLexer. *)

\* C31: every token emit appended to l.buf is returned by NextToken before
\* NextToken returns an EOF-typed token, also when the state that emitted it
\* went on to return an error or to have a cursor operation record one.  A
\* token leaves l.buf only by being returned, so this says: when NextToken
\* has returned an EOF-typed token, l.buf is empty, or the token is the
\* EOF-typed token a state emitted, which stays at the head of l.buf.
C31_EmittedBeforeEOF ==
    (ppc = "send" /\ t.Type = TokenTypeEOF) => (buf = << >> \/ buf[1] = t)

-----------------------------------------------------------------------------
(* The token in progress, checked under SpecRunes. *)

\* C32: whatever calls a lexer state has made, l.pos is not before l.cursor,
\* Width() is the difference of their offsets and the number of runes of the
\* text in progress, and the text in progress is the runes of the input from
\* offset l.cursor.Offset up to, not including, offset l.pos.Offset.
C32_TextIsSpan ==
    /\ pos.Offset >= cursor.Offset
    /\ Width = pos.Offset - cursor.Offset
    /\ Width = Len(b)
    /\ b = SubSeq(r.data, cursor.Offset + 1, pos.Offset)

\* C32's case: a state moved the cursor past the first rune of the input,
\* by discarding, ignoring or emitting it, and read the second, a newline,
\* which is the text in progress.
C32_Witness ==
    /\ h.call.op = "next_rune"
    /\ h.call.text = << >>
    /\ cursor.Offset = 1
    /\ pos.Offset = 2
    /\ r.data = << "a", NL >>
    /\ b = << NL >>
    /\ Width = 1

\* C33: whatever calls a lexer state has made, every token Emit has produced
\* has for Value the runes of the input from offset Start.Offset up to, not
\* including, offset End.Offset, and End.Offset - Start.Offset is the number
\* of runes of Value.
C33_TokenIsSpan ==
    \A i \in 1..Len(h.emitted) :
      LET T == h.emitted[i]
      IN  /\ T.Value = SubSeq(r.data, T.Start.Offset + 1, T.End.Offset)
          /\ T.End.Offset - T.Start.Offset = Len(T.Value)

\* C33's case: a state moved the cursor past the first rune of the input,
\* read the second, a newline, and emitted it.
C33_Witness ==
    /\ h.call.op = "emit"
    /\ Len(h.emitted) = 1
    /\ h.emitted[1] = h.call.ret
    /\ r.data = << "a", NL >>
    /\ h.emitted[1].Value = << NL >>
    /\ h.emitted[1].Start.Offset = 1
    /\ h.emitted[1].End.Offset = 2

\* ignore() applied to the lexer as ignore() leaves it gives what the first
\* gave.
IgnoreTwice ==
    ignore([Reading EXCEPT !.b = ignore(Reading).b]) = ignore(Reading)

\* C34: after Ignore() l.cursor is l.pos and the text in progress is empty;
\* the reader, l.pos, l.buf and l.err are as they were; and an Ignore() that
\* follows an Ignore() changes nothing.
C34_Ignore ==
    /\ []IgnoreTwice
    /\ [][CallStep("ignore") =>
            /\ cursor' = pos'
            /\ b' = << >>
            /\ UNCHANGED << r, pos, buf, err, nextId >>
            /\ h.call.op = "ignore" => UNCHANGED << cursor, b >>]_vars

\* C34's case: a state read the two runes of the input and called Ignore().
C34_Witness ==
    /\ h.call.op = "ignore"
    /\ Len(h.call.text) = 2
    /\ pos.Offset = 2
    /\ cursor = pos
    /\ b = << >>
    /\ buf = << >>

-----------------------------------------------------------------------------
(* The shape of the parse tree, checked under SpecShape. *)

\* The nodes met descending from n through Children, parents first, no deeper
\* than d levels.
RECURSIVE DescentUpTo(_, _)
RECURSIVE DescentOf(_, _)
DescentUpTo(n, d) ==
    IF d = 0 THEN << n >> ELSE << n >> \o DescentOf(heap[n].Children, d - 1)
DescentOf(kids, d) ==
    IF kids = << >> THEN << >>
    ELSE DescentUpTo(Head(kids), d) \o DescentOf(Tail(kids), d)

\* The descent from the root.  A tree of the nodes allocated is no deeper
\* than their number.
Descent == DescentUpTo(root, Cardinality(DOMAIN heap))

\* The places where n is listed as a child of a node of the tree.
ListedAt(n) ==
    { pi \in Subtree(root) \X (1..Cardinality(DOMAIN heap)) :
        /\ pi[2] <= Len(heap[pi[1]].Children)
        /\ heap[pi[1]].Children[pi[2]] = n }

\* C35: after any Push, Node, NewNode, Climb and Replace calls on a new
\* parser, the nodes reachable from p.root form a tree: every node listed
\* in the Children of a reachable node has that node for Parent; every
\* reachable node but the root is listed exactly once among the Children of
\* the reachable nodes, by its Parent; the root is listed nowhere; and the
\* descent from the root meets each node once.
C35_TreeIsTree ==
    /\ \A p \in Subtree(root) :
         \A k \in 1..Len(heap[p].Children) : heap[heap[p].Children[k]].Parent = p
    /\ \A n \in Subtree(root) \ {root} :
         /\ Cardinality(ListedAt(n)) = 1
         /\ \A pi \in ListedAt(n) : pi[1] = heap[n].Parent
    /\ ListedAt(root) = {}
    /\ \A i, j \in 1..Len(Descent) : Descent[i] = Descent[j] => i = j
    /\ Range(Descent) = Subtree(root)

\* C35's case: a node under the root that had a child was replaced: the new
\* node is in its place under the root, with the child under it, and a third
\* level of the tree exists.
C35_Witness ==
    /\ h.tree.op = "replace"
    /\ node # root
    /\ heap[node].Parent = root
    /\ heap[root].Children = << node >>
    /\ Len(heap[node].Children) = 1
    /\ Len(Descent) = 3
    /\ Cardinality(DOMAIN heap) = 4

-----------------------------------------------------------------------------
(* The current node, checked under SpecTree. *)

\* C36: after any Push, Node, NewNode, Climb, Replace and SetRoot calls,
\* SetRoot being given any node the state holds, the current node p.node is
\* among the nodes reachable from p.root by descent.
C36_NodeUnderRoot == node \in Subtree(root)

-----------------------------------------------------------------------------
(* The producer goroutine of LexParse, checked under Spec. *)

\* Every token sent on tokens.c so far, in order: those the parser took and
\* those still in the channel.
Sent == h.recv \o c

\* C37: the producer sends every token NextToken returns, the first
\* EOF-typed one included, and ends there: an EOF-typed token is the last
\* token ever sent, so the channel holds at most one; the producer has ended
\* exactly when it has sent one; and the channel never holds more tokens than
\* its capacity.
C37_ProducerStopsAtEOF ==
    /\ [](/\ Len(c) <= channelBufSize
          /\ \A i \in 1..Len(Sent) :
               Sent[i].Type = TokenTypeEOF => i = Len(Sent)
          /\ ppc = "done" <=>
               (Sent # << >> /\ Sent[Len(Sent)].Type = TokenTypeEOF))
    /\ [][(ppc = "send" /\ ppc' # "send") =>
            /\ c' = Append(c, t)
            /\ ppc' = IF t.Type = TokenTypeEOF THEN "done" ELSE "lex"]_vars

\* C37's case: the producer sent two tokens the states emitted and the EOF
\* token, waiting for room in between, and has ended; the channel is full,
\* with the EOF token last.
C37_Witness ==
    /\ ppc = "done"
    /\ Len(Sent) = 3
    /\ Len(h.emitted) = 2
    /\ Len(c) = channelBufSize
    /\ c[Len(c)].Type = TokenTypeEOF
    /\ c[1].Type # TokenTypeEOF

-----------------------------------------------------------------------------
(* The interleavings of LexParse, checked under SpecFixed. *)

\* The error Err() reports once the lexer has been run to its end.
PlanLexErr == IF h.plan.e = LexFail THEN LexFail ELSE Nil

\* C38: with a fixed lexer state and a fixed parser state, and a caller that
\* never cancels, LexParse returns the same pair under every interleaving of
\* its two goroutines: the pair it returns when the producer has run the
\* lexer to its end before the parser starts, which is the root with the
\* lexer's error if it has one and the parser's otherwise.
C38_SameResult ==
    mpc = "done" =>
      /\ retRoot = RootAddr
      /\ retErr = aggregate(PlanLexErr, parseResult(h.plan.ret))

-----------------------------------------------------------------------------
(* The order of the tokens NextToken returns, checked under SpecCursor. *)

\* NextToken returns in this step, to a caller that holds the token of an
\* earlier call.
ReturnsAgain ==
    /\ ppc # "send"
    /\ ppc' = "send"
    /\ t.Type # "zero"

\* C39: the tokens successive NextToken calls return, EOF tokens included,
\* are in the order of the input and do not overlap: each starts at or after
\* the end of the one returned before it, and none ends before it starts.
C39_TokensInSourceOrder ==
    [][ReturnsAgain =>
         /\ t'.Start.Offset >= t.End.Offset
         /\ t'.Start.Offset <= t'.End.Offset]_vars

-----------------------------------------------------------------------------
(* The end of Parse, checked under SpecStack. *)

\* C40: Parse returns a nil error only when the state stack is empty or a
\* state has returned io.EOF: a nil state value handed to PushState or
\* NewParser is popped like any other entry, and the states beneath it still
\* run before Parse returns.
C40_NilErrorMeansDone ==
    (cpc = "done" /\ parseErr = Nil) =>
      (h.exit = "eof" \/ stateStack = << >>)

=============================================================================
